---- MODULE Spec2Model ----
(***************************************************************************)
(* wgmesh decentralized daemon: PeerStore aging, the encrypted envelope,  *)
(* the HELLO/REPLY/ANNOUNCE peer exchange and the reconcile loop.          *)
(*                                                                         *)
(* Time is counted in units of 10 seconds (the exchange timeout).          *)
(***************************************************************************)
EXTENDS Integers, Sequences, FiniteSets, TLC

\* ------------------------------------------------------------------ bounds
MaxInFlight == 1
MaxSends == 2
ExchangeHorizon == 2
AgingHorizon == 75

\* ------------------------------------------------------- program constants
\* all durations in units of 10 s
ExchangeTimeout == 1
ContactDebounce == 6
PeerDeadTimeout == 30
PeerRemoveTimeout == 60
MaxMessageAge == 60
NonceSize == 12
DefaultWGPort == 51820
ExchangePort == 51821
LANMulticastPort == 51830

ProtocolVersion == "wgmesh-v1"
MessageTypeHello == "HELLO"
MessageTypeReply == "REPLY"
MessageTypeAnnounce == "ANNOUNCE"
DHTMethod == "dht"
LANMethod == "lan"

\* Nodes 1 and 2 are daemons of one mesh, node 3 is a daemon that was given
\* another secret; pubkey 4 is a member of the mesh that stays silent.
Nodes == {1, 2, 3}
SilentPeer == Cardinality(Nodes) + 1

\* The clock advances by one exchange timeout while an exchange is waiting
\* for its timer and by one minute otherwise.
MinuteStep == ContactDebounce
\* The aging of a store is followed in steps of half the active window.
AgingStep == PeerDeadTimeout \div 2

\* ------------------------------------------------------------ local nodes
\* WireGuard public key of node n (a string in the code; ordered like n).
PubKey(n) == n
\* Source IP address under which node n's datagrams are observed.
IPOf(n) == n
UnspecifiedHost == 0
EmptyEndpoint == <<>>

\* LocalNode.MeshIP of node n, as initLocalNode derives it from the node's
\* key and the secret: here the 16-bit suffix, one per node.
MeshIPOf(n) == 256 + n

\* setLocalWGEndpoint: the daemon always advertises 0.0.0.0:<listen port>.
LocalWGEndpoint == <<UnspecifiedHost, DefaultWGPort>>

\* Config.AdvertiseRoutes of node n.
AdvertiseRoutes(n) == IF n = 1 THEN <<"192.168.1.0/24">> ELSE <<>>

\* How many re-derivations of one node are followed.
MaxRederivations == 2

\* The largest value of the two digest bytes that make the suffix of a
\* mesh address (0xFFFF in the code, scaled down).
SuffixMax == 3

\* The nonce CheckAndResolveCollisions and ResolveCollision derive with.
CollisionNonce == 1

\* Stands for the input of DeriveMeshIP, which carries no nonce part.
NoNonce == 0

\* What is hashed to derive a mesh address: a public key (the secret is the
\* same throughout a mesh) and the nonce part.
HashInputs == {PubKey(n) : n \in Nodes} \X {NoNonce, CollisionNonce}

\* How many contactPeer goroutines of one node are followed at a time.
MaxGoroutines == 2

Goroutines == 1..MaxGoroutines

\* A goroutine slot with no call running.
NoCall == [pc |-> "idle", addr |-> 0]

\* No mesh IP derivation is looked at.
NoDerivation == [pc |-> "none", meshSubnet |-> <<0, 0>>, hash |-> <<0, 0>>,
                 nonceHash |-> <<0, 0>>, nonce |-> 0, MeshIP |-> <<>>]

\* NewDandelionRouter: epoch 0 without relays, no handlers.  rng[<<id, n>>]
\* is the permutation that rand.New(NewSource(seed)).Shuffle applies to n
\* elements when the seed is HMAC(epochSeed, id).
NoHandling == [arrived |-> -1, HopCount |-> -1, did |-> "none",
               called |-> FALSE, relays |-> <<>>, relay |-> <<>>]
NoRouter == [epoch |-> [ID |-> 0, RelayPeers |-> <<>>], rng |-> <<>>,
             onFluff |-> FALSE, onStem |-> FALSE, allPeers |-> <<>>,
             msg |-> <<>>, arrivals |-> 0, last |-> NoHandling]

\* The goroutines a running daemon has besides main: the ticker loops of
\* the daemon and of the DHT layer, the peer exchange listener, and one
\* contactPeer goroutine inside ExchangeWithPeer.
DaemonLoops == {"reconcileLoop", "statusLoop"}
DHTLoops == {"announceLoop", "queryLoop"}
TickerLoops == DaemonLoops \cup DHTLoops
Tasks == TickerLoops \cup {"listenLoop", "exchange"}

\* Before RunWithDHTDiscovery: nothing started, no socket bound.
NoRun == [main |-> "none", signalled |-> FALSE,
          ctxDone |-> FALSE, dhtCtxDone |-> FALSE, running |-> FALSE,
          stopChClosed |-> FALSE, conn |-> "none", dhtConn |-> "none",
          ticks |-> 0, ticker |-> [l \in TickerLoops |-> FALSE],
          task |-> [t \in Tasks |-> "none"]]

\* Node 1's reconcile loop has not ticked.
NoReconcile == [ran |-> "none", active |-> {}, failed |-> {}, set |-> {},
                cleanup |-> FALSE, remove |-> {}]
NoDriver == [crashed |-> FALSE, ticks |-> 0, last |-> NoReconcile]


\* The goroutines that read the store.
MaxReaders == 1
Readers == 1..MaxReaders

\* No Update holds the write lock.
NoUpdate == [pc |-> "idle"]

\* No caller has read through a pointer yet.
NoObservation == [from |-> "", torn |-> FALSE]

\* Memory before any PeerInfo exists: objs and arrays are indexed by
\* address, peers is the store's map from key to address.
NoHeap ==
  [objs |-> <<>>, arrays |-> <<>>, peers |-> <<>>, mu |-> NoUpdate,
   passed |-> 0, held |-> [r \in Readers |-> {}],
   observed |-> NoObservation, updates |-> 0, reads |-> 0]


\* DetectCollisions has not been called.
NoDetection == [called |-> FALSE]


\* No route lists have been compared.
NoRoutes == [current |-> <<>>, desired |-> <<>>, called |-> FALSE]


\* ApplyRouteDiff has not run.
NoApply == [pc |-> "idle"]


\* No service is being installed.
NoUnit == [generated |-> FALSE]

\* The two services as NewPeerExchange and NewLANDiscovery return them:
\* not running, no socket, the stop channel made and open, no goroutine.
Services == {"exchange", "lan"}

NewService ==
  [running |-> FALSE, stopCh |-> "open", conn |-> "nil",
   spawned |-> 0, reading |-> 0, announcing |-> 0,
   panicked |-> FALSE, calls |-> 0,
   last |-> [op |-> "none", err |-> "none"]]

NoLife == [s \in Services |-> NewService]

\* The discovery as NewDHTDiscovery returns it: not running, its context
\* live, no DHT server and no DHT socket, no loop.
NoDisc ==
  [running |-> FALSE, ctxDone |-> FALSE, server |-> "nil",
   dhtConn |-> "none", loops |-> 0, calls |-> 0,
   last |-> [op |-> "none", err |-> "none"]]

\* A RendezvousRegistry as NewRendezvousRegistry returns it, and a
\* registry repository without issues.
NewRendezvousRegistry ==
  [pc |-> "idle", issueNum |-> 0, peers |-> {}, seen |-> 0,
   searchErr |-> FALSE, calls |-> 0]

NoRegistry ==
  [issues |-> <<>>, token |-> [n \in {1, 2, 3} |-> FALSE],
   client |-> [n \in {1, 2, 3} |-> NewRendezvousRegistry]]

\* DeriveMeshIPWithCollisionCheck has not been called.
NoCheck == [pc |-> "none", hash |-> <<>>, existingIPs |-> <<>>,
            ip |-> 0, rederivations |-> 0]

\* A join command that has not been given.
NoStartup == [pc |-> "none", opts |-> <<>>, cfg |-> <<>>, err |-> ""]

\* A node that has not announced to the DHT yet.
NoAnnounce == [at |-> -1, ids |-> {}, found |-> {}]

VARIABLES
  now,        \* real time
  secret,     \* secret[n]: Config.Secret of node n (fixes its gossip key)
  skew,       \* skew[n]: offset of node n's wall clock from real time
  store,      \* store[n]: PeerStore.peers of node n, pubkey -> PeerInfo
  net,        \* UDP datagrams in flight
  pending,    \* pending[n]: PeerExchange.pendingReplies, address -> channel
  exch,       \* exch[n]: the contactPeer/ExchangeWithPeer call of node n
  contacted,  \* contacted[n]: DHTDiscovery.contactedPeers, address -> time
  sends,      \* number of exchanges, pushes and foreign datagrams so far
  wgPeers,    \* wgPeers[n]: pubkeys configured on node n's WireGuard interface
  lastTick,   \* what the reconcile tick of this instant did, and at which node
  log,        \* the latest line of the discovery log, and why a packet
              \* it reports as dropped did not open
  localNode,  \* localNode[n]: Daemon.localNode of node n (MeshIP), the
              \* address on its interface, the nonces it has derived with
  digest,     \* the first two bytes of sha256, input -> value
  dht,        \* dht[n]: when node n last announced to the DHT and under
              \* which network IDs, and whom its last query found
  calls,      \* calls[g]: the contactPeer goroutine g of node 1
  lastHello,  \* lastHello[a]: when node 1's DHT layer last sent address a
              \* a HELLO (-1: never)
  startup,    \* the join command of one daemon: its --secret flag, how
              \* far it got, the Config it built or the error it printed
  derived,    \* the mesh IP derivation of that daemon: what sha256 gives
              \* for its key and secret, without and with the nonce, and
              \* the address derived last
  router,     \* the DandelionRouter of that daemon: its epoch, its handlers,
              \* the announce on its way to a router and what HandleAnnounce
              \* did with the last one; rng is what the seeded shuffle gives
  run,        \* RunWithDHTDiscovery of that daemon: where its main goroutine
              \* is, its contexts, sockets and stop channel, its tickers and
              \* where each of its background goroutines is
  driver,     \* the WireGuard driver as node 1's reconcile finds it: whether
              \* the daemon has panicked, how many ticks ran, and what the
              \* last tick called and which of its calls failed
  heap,       \* the PeerInfo structs in memory, the store's map of
              \* pointers to them, and the pointers callers hold
  detected,   \* the last result of DetectCollisions and the store it
              \* was computed from
  routes,     \* the route lists given to CalculateRouteDiff and its
              \* result
  applied,    \* the routes on the interface after ApplyRouteDiff and
              \* the diff of the next deploy
  unit,       \* the service configuration and the unit generated from
              \* it
  life,       \* PeerExchange and LANDiscovery as they are started and
              \* stopped
  disc,       \* the DHTDiscovery as it is started and stopped
  reg,        \* the registry's issues and each node's RendezvousRegistry
  check       \* a call of DeriveMeshIPWithCollisionCheck: what it was
              \* given and what it returned

\* The state of the mesh of nodes.
meshVars == <<now, secret, skew, store, net, pending, exch, contacted, sends,
              wgPeers, lastTick, log, localNode, digest, dht, calls,
              lastHello>>

\* The state of the one daemon that is followed from its command line on.
daemonVars == <<startup, derived, router, run, driver, heap, detected, routes, applied, unit, life, disc, reg, check>>

vars == <<now, secret, skew, store, net, pending, exch, contacted, sends,
          wgPeers, lastTick, log, localNode, digest, dht, calls, lastHello,
          daemonVars>>

\* time.Now() as node n reads it
Clock(n) == now + skew[n]

\* ---------------------------------------------------------------- PeerStore
NewPeerStore == <<>>

Has(ps, k) == k \in DOMAIN ps

Put(ps, k, v) == [x \in DOMAIN ps \cup {k} |-> IF x = k THEN v ELSE ps[x]]

Remove(f, k) == [x \in DOMAIN f \ {k} |-> f[x]]

Contains(seq, x) == \E i \in 1..Len(seq) : seq[i] = x

\* PeerStore.Update: insert, or merge the non-empty fields into the entry.
\* Update that takes every field of info, empty or not.
UpdateReplacing(ps, info, discoveryMethod, t) ==
  Put(ps, info.WGPubKey,
      [WGPubKey |-> info.WGPubKey, MeshIP |-> info.MeshIP,
       Endpoint |-> info.Endpoint, RoutableNetworks |-> info.RoutableNetworks,
       LastSeen |-> t,
       DiscoveredVia |-> IF ~Has(ps, info.WGPubKey) THEN <<discoveryMethod>>
                         ELSE IF Contains(ps[info.WGPubKey].DiscoveredVia, discoveryMethod)
                         THEN ps[info.WGPubKey].DiscoveredVia
                         ELSE Append(ps[info.WGPubKey].DiscoveredVia, discoveryMethod)])

\* Update that remembers the latest discovery method only.
UpdateLastMethodOnly(ps, info, discoveryMethod, t) ==
  Put(ps, info.WGPubKey,
      [WGPubKey |-> info.WGPubKey,
       MeshIP |-> IF Has(ps, info.WGPubKey) /\ info.MeshIP = 0
                  THEN ps[info.WGPubKey].MeshIP ELSE info.MeshIP,
       Endpoint |-> IF Has(ps, info.WGPubKey) /\ info.Endpoint = EmptyEndpoint
                    THEN ps[info.WGPubKey].Endpoint ELSE info.Endpoint,
       RoutableNetworks |-> IF Has(ps, info.WGPubKey) /\ Len(info.RoutableNetworks) = 0
                            THEN ps[info.WGPubKey].RoutableNetworks
                            ELSE info.RoutableNetworks,
       LastSeen |-> t, DiscoveredVia |-> <<discoveryMethod>>])

Update(ps, info, discoveryMethod, t) ==
  IF ~Has(ps, info.WGPubKey)
  THEN Put(ps, info.WGPubKey,
           [WGPubKey |-> info.WGPubKey, MeshIP |-> info.MeshIP,
            Endpoint |-> info.Endpoint,
            RoutableNetworks |-> info.RoutableNetworks,
            LastSeen |-> t, DiscoveredVia |-> <<discoveryMethod>>])
  ELSE LET existing == ps[info.WGPubKey] IN
       Put(ps, info.WGPubKey,
           [WGPubKey |-> existing.WGPubKey,
            MeshIP |-> IF info.MeshIP # 0 THEN info.MeshIP ELSE existing.MeshIP,
            Endpoint |-> IF info.Endpoint # EmptyEndpoint
                         THEN info.Endpoint ELSE existing.Endpoint,
            RoutableNetworks |-> IF Len(info.RoutableNetworks) > 0
                                 THEN info.RoutableNetworks
                                 ELSE existing.RoutableNetworks,
            LastSeen |-> t,
            DiscoveredVia |-> IF Contains(existing.DiscoveredVia, discoveryMethod)
                              THEN existing.DiscoveredVia
                              ELSE Append(existing.DiscoveredVia, discoveryMethod)])

\* A GetActive that measures against the remove window.
GetActiveWithinRemoveWindow(ps, t) ==
  {k \in DOMAIN ps : t - ps[k].LastSeen < PeerRemoveTimeout}

\* PeerStore.GetActive: the pubkeys of the peers seen less than
\* PeerDeadTimeout ago (the code returns copies of their records).
GetActive(ps, t) == {k \in DOMAIN ps : t - ps[k].LastSeen < PeerDeadTimeout}

\* A CleanupStale that evicts from the remove window on, not only past it.
StaleKeysFromWindow(ps, t) ==
  {k \in DOMAIN ps : t - ps[k].LastSeen >= PeerRemoveTimeout}

\* PeerStore.CleanupStale, its result: the evicted pubkeys.
StaleKeys(ps, t) == {k \in DOMAIN ps : t - ps[k].LastSeen > PeerRemoveTimeout}

\* PeerStore.CleanupStale, its effect: the store that is left.
CleanupStale(ps, t) == [k \in DOMAIN ps \ StaleKeys(ps, t) |-> ps[k]]

\* ------------------------------------------------------------------ Envelope
\* CreateAnnouncement: the plaintext, stamped with the sender's clock.
CreateAnnouncement(wgPubKey, meshIP, wgEndpoint, routableNetworks, knownPeers, t) ==
  [Protocol |-> ProtocolVersion, WGPubKey |-> wgPubKey, MeshIP |-> meshIP,
   WGEndpoint |-> wgEndpoint, RoutableNetworks |-> routableNetworks,
   Timestamp |-> t, KnownPeers |-> knownPeers]

\* SealEnvelope: AES-256-GCM under the gossip key of `sec`, fresh nonce.
\* `key` and `intact` stand for the ciphertext and its tag: the plaintext
\* is recovered only under the same key from an unmodified ciphertext.
SealEnvelope(messageType, payload, sec, nonce) ==
  [json |-> TRUE, MessageType |-> messageType, Nonce |-> nonce,
   NonceLen |-> NonceSize, key |-> sec, intact |-> TRUE, ann |-> payload]

\* An OpenEnvelope whose key does not depend on the secret.
OpenEnvelopeAnyKey(data, sec, t) ==
  IF ~data.json THEN "failed to unmarshal envelope"
  ELSE IF data.NonceLen # NonceSize THEN "invalid nonce size"
  ELSE IF ~data.intact THEN "decryption failed"
  ELSE IF data.ann.Protocol # ProtocolVersion THEN "unsupported protocol version"
  ELSE IF t - data.ann.Timestamp > MaxMessageAge THEN "message too old"
  ELSE IF data.ann.Timestamp > t + MaxMessageAge THEN "message timestamp in future"
  ELSE ""

\* An OpenEnvelope that checks the age of a message but not whether its
\* timestamp lies in the future.
OpenEnvelopePastOnly(data, sec, t) ==
  IF ~data.json THEN "failed to unmarshal envelope"
  ELSE IF data.NonceLen # NonceSize THEN "invalid nonce size"
  ELSE IF data.key # sec \/ ~data.intact THEN "decryption failed"
  ELSE IF data.ann.Protocol # ProtocolVersion THEN "unsupported protocol version"
  ELSE IF t - data.ann.Timestamp > MaxMessageAge THEN "message too old"
  ELSE ""

\* An OpenEnvelope that does not look at the protocol tag.
OpenEnvelopeAnyProtocol(data, sec, t) ==
  IF ~data.json THEN "failed to unmarshal envelope"
  ELSE IF data.NonceLen # NonceSize THEN "invalid nonce size"
  ELSE IF data.key # sec \/ ~data.intact THEN "decryption failed"
  ELSE IF t - data.ann.Timestamp > MaxMessageAge THEN "message too old"
  ELSE IF data.ann.Timestamp > t + MaxMessageAge THEN "message timestamp in future"
  ELSE ""

\* OpenEnvelope: "" when the envelope opens, else the error, in the order
\* in which the code checks.
OpenEnvelope(data, sec, t) ==
  IF ~data.json THEN "failed to unmarshal envelope"
  ELSE IF data.NonceLen # NonceSize THEN "invalid nonce size"
  ELSE IF data.key # sec \/ ~data.intact THEN "decryption failed"
  ELSE IF data.ann.Protocol # ProtocolVersion THEN "unsupported protocol version"
  ELSE IF t - data.ann.Timestamp > MaxMessageAge THEN "message too old"
  ELSE IF data.ann.Timestamp > t + MaxMessageAge THEN "message timestamp in future"
  ELSE ""

\* A nonce no datagram in flight carries (the code draws 12 random bytes).
FreshNonce(inFlight) ==
  CHOOSE i \in 1..(Cardinality(inFlight) + 1) : \A p \in inFlight : p.Nonce # i

\* -------------------------------------------------------------- PeerExchange
\* resolvePeerEndpoint: an unspecified host is replaced by the observed
\* source IP; an unparsable endpoint falls back to <source IP>:51820.
resolvePeerEndpoint(advertised, senderIP) ==
  IF Len(advertised) = 2
  THEN <<IF advertised[1] = UnspecifiedHost THEN senderIP ELSE advertised[1],
         advertised[2]>>
  ELSE <<senderIP, DefaultWGPort>>

\* normalizeKnownPeerEndpoint: "" unless host:port parses.
normalizeKnownPeerEndpoint(endpoint) ==
  IF Len(endpoint) = 2 THEN endpoint ELSE EmptyEndpoint

\* PeerExchange.getKnownPeers: the active peers as KnownPeer triples.
\* A node that shares no peers.
getKnownPeersNone(ps, t) == {}

getKnownPeers(ps, t) ==
  {[WGPubKey |-> k, MeshIP |-> ps[k].MeshIP, WGEndpoint |-> ps[k].Endpoint] :
     k \in GetActive(ps, t)}

RECURSIVE updateTransitivePeers(_, _, _, _)
\* PeerExchange.updateTransitivePeers: merge every known peer but oneself.
updateTransitivePeers(ps, knownPeers, self, t) ==
  IF knownPeers = {} THEN ps
  ELSE LET kp == CHOOSE x \in knownPeers : TRUE
           rest == knownPeers \ {kp}
       IN IF kp.WGPubKey = self
          THEN updateTransitivePeers(ps, rest, self, t)
          ELSE updateTransitivePeers(
                 Update(ps, [WGPubKey |-> kp.WGPubKey, MeshIP |-> kp.MeshIP,
                             Endpoint |-> normalizeKnownPeerEndpoint(kp.WGEndpoint),
                             RoutableNetworks |-> <<>>],
                        DHTMethod \o "-transitive", t),
                 rest, self, t)

\* The PeerInfo handleHello and handleReply build from an announcement.
PeerInfoOf(a, senderIP) ==
  [WGPubKey |-> a.WGPubKey, MeshIP |-> a.MeshIP,
   Endpoint |-> resolvePeerEndpoint(a.WGEndpoint, senderIP),
   RoutableNetworks |-> a.RoutableNetworks]

\* The datagram node n sends to the exchange socket of `to`: its own
\* announcement with the known peers of store ps, sealed under its gossip key.
Datagram(n, ps, to, messageType, nonce) ==
  [src |-> n, dst |-> to, port |-> ExchangePort] @@
  SealEnvelope(messageType,
               CreateAnnouncement(PubKey(n), MeshIPOf(n), LocalWGEndpoint,
                                  AdvertiseRoutes(n),
                                  getKnownPeers(ps, Clock(n)), Clock(n)),
               secret[n], nonce)

NoExchange == [pc |-> "idle", addr |-> 0, start |-> 0,
               ch |-> <<>>, result |-> <<>>, err |-> ""]
NoTick == [node |-> 0, ran |-> "none", active |-> {}, configured |-> {},
           evicted |-> {}]
NoLog == [node |-> 0, event |-> "", why |-> ""]

\* ---------------------------------------------------------------------- time
\* A goroutine blocked in ExchangeWithPeer's select: reply channel empty,
\* timer not yet fired.
Blocked(n) ==
  /\ exch[n].pc = "waiting"
  /\ exch[n].ch = <<>>
  /\ now < exch[n].start + ExchangeTimeout

\* Time passes only while every goroutine is idle or blocked: by the exchange
\* timeout while one is blocked, by `step` otherwise.
TickTo(step, horizon) ==
  /\ \A n \in Nodes : exch[n].pc = "idle" \/ Blocked(n)
  /\ LET d == IF \E n \in Nodes : Blocked(n) THEN ExchangeTimeout ELSE step
     IN /\ now + d <= horizon
        /\ now' = now + d
  /\ lastTick' = NoTick
  /\ UNCHANGED <<daemonVars, secret, skew, localNode, digest, dht, calls, lastHello, store, net, pending, exch, contacted, sends,
                 wgPeers, log>>

\* ----------------------------------------------- DHTDiscovery.contactPeer
\* The address string of node a's exchange socket, as the DHT reports it.
AddrOf(a) == <<IPOf(a), ExchangePort>>

\* contactPeer up to the first statements of ExchangeWithPeer: skip our own
\* advertised endpoint, debounce, note the contact, register the reply
\* channel under the remote address.
ContactPeer(n, a) ==
  /\ exch[n].pc = "idle"
  /\ AddrOf(a) # LocalWGEndpoint
  /\ ~(a \in DOMAIN contacted[n] /\ Clock(n) - contacted[n][a] < ContactDebounce)
  /\ contacted' = [contacted EXCEPT ![n] = Put(@, a, Clock(n))]
  /\ pending' = [pending EXCEPT ![n] = Put(@, a, "replyCh")]
  /\ exch' = [exch EXCEPT ![n] = [NoExchange EXCEPT !.pc = "registered",
                                   !.addr = a]]
  /\ UNCHANGED <<daemonVars, now, secret, skew, localNode, digest, dht, calls, lastHello, store, net, wgPeers, lastTick, log>>

\* ExchangeWithPeer: build, seal and send the HELLO, then wait.
SendHello(n) ==
  /\ exch[n].pc = "registered"
  /\ net' = net \cup {Datagram(n, store[n], exch[n].addr, MessageTypeHello,
                               FreshNonce(net))}
  /\ exch' = [exch EXCEPT ![n].pc = "waiting", ![n].start = now]
  /\ UNCHANGED <<daemonVars, now, secret, skew, localNode, digest, dht, calls, lastHello, store, pending, contacted, sends,
                 wgPeers, lastTick, log>>

\* ExchangeWithPeer: the select receives the reply from the channel.
ExchangeReply(n) ==
  /\ exch[n].pc = "waiting"
  /\ exch[n].ch # <<>>
  /\ exch' = [exch EXCEPT ![n].pc = "returned", ![n].result = exch[n].ch,
                          ![n].ch = <<>>]
  /\ UNCHANGED <<daemonVars, now, secret, skew, localNode, digest, dht, calls, lastHello, store, net, pending, contacted, sends,
                 wgPeers, lastTick, log>>

\* ExchangeWithPeer: the timer fires on the select while the channel is
\* still empty.
ExchangeTimedOut(n) ==
  /\ exch[n].pc = "waiting"
  /\ exch[n].ch = <<>>
  /\ now >= exch[n].start + ExchangeTimeout
  /\ exch' = [exch EXCEPT ![n].pc = "returned", ![n].err = "exchange timeout"]
  /\ UNCHANGED <<daemonVars, now, secret, skew, localNode, digest, dht, calls, lastHello, store, net, pending, contacted, sends,
                 wgPeers, lastTick, log>>

\* A return of ExchangeWithPeer without the deferred
\* clearPendingReplyChannel.
ContactDoneKeepPending(n) ==
  /\ exch[n].pc = "returned"
  /\ store' = [store EXCEPT ![n] =
                 IF exch[n].err = ""
                 THEN Update(@, exch[n].result[1], DHTMethod, Clock(n))
                 ELSE @]
  /\ exch' = [exch EXCEPT ![n] = NoExchange]
  /\ UNCHANGED <<daemonVars, now, secret, skew, localNode, digest, dht, calls, lastHello, net, pending, contacted, sends,
                 wgPeers, lastTick, log>>

\* ExchangeWithPeer returns, its deferred clearPendingReplyChannel runs,
\* and contactPeer stores the replier if there is one.
ContactDone(n) ==
  /\ exch[n].pc = "returned"
  /\ pending' = [pending EXCEPT ![n] = Remove(@, exch[n].addr)]
  /\ store' = [store EXCEPT ![n] =
                 IF exch[n].err = ""
                 THEN Update(@, exch[n].result[1], DHTMethod, Clock(n))
                 ELSE @]
  /\ exch' = [exch EXCEPT ![n] = NoExchange]
  /\ UNCHANGED <<daemonVars, now, secret, skew, localNode, digest, dht, calls, lastHello, net, contacted, sends,
                 wgPeers, lastTick, log>>

\* ------------------------------------------------ PeerExchange.handleMessage
\* A handleHello that merges the sender but not its known peers.
HelloStoreSenderOnly(n, a, senderIP) ==
  Update(store[n], PeerInfoOf(a, senderIP), DHTMethod, Clock(n))

\* handleHello: the store after the sender and its known peers are merged.
HelloStore(n, a, senderIP) ==
  updateTransitivePeers(
    Update(store[n], PeerInfoOf(a, senderIP), DHTMethod, Clock(n)),
    a.KnownPeers, PubKey(n), Clock(n))

\* handleHello: ignore our own HELLO; else merge and answer with a REPLY.
handleHello(n, pkt) ==
  IF pkt.ann.WGPubKey = PubKey(n)
  THEN /\ net' = net \ {pkt}
       /\ UNCHANGED store
  ELSE /\ store' = [store EXCEPT ![n] = HelloStore(n, pkt.ann, IPOf(pkt.src))]
       /\ net' = (net \ {pkt}) \cup
                 {Datagram(n, store'[n], pkt.src, MessageTypeReply,
                           FreshNonce(net \ {pkt}))}

\* A handleReply that drops the replier when no exchange waits for it.
handleReplySolicitedOnly(n, pkt) ==
  LET peerInfo == PeerInfoOf(pkt.ann, IPOf(pkt.src))
      merged == updateTransitivePeers(store[n], pkt.ann.KnownPeers, PubKey(n),
                                      Clock(n))
  IN /\ store' = [store EXCEPT ![n] = merged]
     /\ IF pkt.src \in DOMAIN pending[n]
        THEN /\ exch' = [exch EXCEPT ![n].ch =
                           IF /\ exch[n].pc # "idle"
                              /\ exch[n].addr = pkt.src
                              /\ @ = <<>>
                           THEN <<peerInfo>> ELSE @]
             /\ log' = [node |-> n, event |-> "valid REPLY", why |-> ""]
        ELSE /\ log' = [node |-> n, event |-> "unsolicited REPLY", why |-> ""]
             /\ UNCHANGED exch

\* handleReply: merge the known peers; hand the replier to the channel
\* registered for this address (dropping it if the channel is full), or
\* merge the replier as unsolicited.
handleReply(n, pkt) ==
  LET peerInfo == PeerInfoOf(pkt.ann, IPOf(pkt.src))
      merged == updateTransitivePeers(store[n], pkt.ann.KnownPeers, PubKey(n),
                                      Clock(n))
  IN IF pkt.src \in DOMAIN pending[n]
     THEN /\ store' = [store EXCEPT ![n] = merged]
          /\ exch' = [exch EXCEPT ![n].ch =
                        IF /\ exch[n].pc # "idle"
                           /\ exch[n].addr = pkt.src
                           /\ @ = <<>>
                        THEN <<peerInfo>> ELSE @]
          /\ log' = [node |-> n, event |-> "valid REPLY", why |-> ""]
     ELSE /\ store' = [store EXCEPT ![n] =
                         Update(merged, peerInfo, DHTMethod, Clock(n))]
          /\ log' = [node |-> n, event |-> "unsolicited REPLY", why |-> ""]
          /\ UNCHANGED exch

\* handleMessage: node n's exchange listener hands over datagram pkt.
handleMessage(n, pkt) ==
  /\ pkt \in net
  /\ pkt.dst = n /\ pkt.port = ExchangePort
  /\ IF OpenEnvelope(pkt, secret[n], Clock(n)) # ""
     THEN /\ net' = net \ {pkt}
          /\ log' = [node |-> n, event |-> "non-wgmesh packet",
                      why |-> OpenEnvelope(pkt, secret[n], Clock(n))]
          /\ UNCHANGED <<store, exch>>
     ELSE CASE pkt.MessageType = MessageTypeHello ->
                 /\ handleHello(n, pkt)
                 /\ log' = [node |-> n, event |-> "valid HELLO", why |-> ""]
                 /\ UNCHANGED exch
            [] pkt.MessageType = MessageTypeReply ->
                 /\ handleReply(n, pkt)
                 /\ net' = net \ {pkt}
            [] OTHER ->
                 /\ net' = net \ {pkt}
                 /\ log' = [node |-> n, event |-> "unknown message type",
                             why |-> ""]
                 /\ UNCHANGED <<store, exch>>
  /\ UNCHANGED <<daemonVars, now, secret, skew, localNode, digest, dht, calls, lastHello, pending, contacted, sends,
                 wgPeers, lastTick>>

\* PeerExchange.SendAnnounce: push an ANNOUNCE to node a's address.
SendAnnounce(n, a) ==
  /\ a # n
  /\ net' = net \cup {Datagram(n, store[n], a, MessageTypeAnnounce,
                               FreshNonce(net))}
  /\ UNCHANGED <<daemonVars, now, secret, skew, localNode, digest, dht, calls, lastHello, store, pending, exch, contacted, wgPeers, lastTick, log>>

\* ------------------------------------------------------ RendezvousRegistry
\* decryptPeerList: the peers a registry entry yields under gossip key
\* `sec`: none unless the envelope opens, else its author and known peers.
decryptPeerList(body, sec, t) ==
  IF OpenEnvelope(body, sec, t) # "" THEN {}
  ELSE {body.ann.WGPubKey} \cup {kp.WGPubKey : kp \in body.ann.KnownPeers}

\* ------------------------------------------------------------- LANDiscovery
\* resolveEndpoint: an unspecified host is replaced by the observed source
\* IP; an unparsable endpoint falls back to <source IP>:51820.
resolveEndpoint(advertised, senderIP) ==
  IF Len(advertised) = 2
  THEN IF advertised[1] = UnspecifiedHost THEN <<senderIP, advertised[2]>>
       ELSE advertised
  ELSE <<senderIP, DefaultWGPort>>

\* LANDiscovery.announce: the multicast ANNOUNCE of node n (no known peers),
\* as it reaches group member r.
LANAnnounce(n, r) ==
  /\ net' = net \cup
       {[src |-> n, dst |-> r, port |-> LANMulticastPort] @@
        SealEnvelope(MessageTypeAnnounce,
                     CreateAnnouncement(PubKey(n), MeshIPOf(n), LocalWGEndpoint,
                                        AdvertiseRoutes(n), {}, Clock(n)),
                     secret[n], FreshNonce(net))}
  /\ UNCHANGED <<daemonVars, now, secret, skew, localNode, digest, dht, calls, lastHello, store, pending, exch, contacted, wgPeers, lastTick, log>>

\* LANDiscovery.listenLoop, one datagram: drop what does not open and our
\* own announcements, merge the sender with method "lan".
listenLoop(n, pkt) ==
  /\ pkt \in net
  /\ pkt.dst = n /\ pkt.port = LANMulticastPort
  /\ net' = net \ {pkt}
  /\ IF OpenEnvelope(pkt, secret[n], Clock(n)) # ""
     THEN /\ log' = [node |-> n, event |-> "lan: ignored",
                      why |-> OpenEnvelope(pkt, secret[n], Clock(n))]
          /\ UNCHANGED store
     ELSE IF pkt.ann.WGPubKey = PubKey(n)
     THEN /\ log' = [node |-> n, event |-> "lan: own announcement", why |-> ""]
          /\ UNCHANGED store
     ELSE /\ log' = [node |-> n, event |-> "lan: discovered peer", why |-> ""]
          /\ store' = [store EXCEPT ![n] =
               Update(@, [WGPubKey |-> pkt.ann.WGPubKey, MeshIP |-> pkt.ann.MeshIP,
                          Endpoint |-> resolveEndpoint(pkt.ann.WGEndpoint,
                                                       IPOf(pkt.src)),
                          RoutableNetworks |-> pkt.ann.RoutableNetworks],
                      LANMethod, Clock(n))]
  /\ UNCHANGED <<daemonVars, now, secret, skew, localNode, digest, dht, calls, lastHello, pending, exch, contacted, sends,
                 wgPeers, lastTick>>

\* ------------------------------------------------------------ other traffic
\* What else reaches the exchange socket: a datagram of another protocol on
\* the shared port (DHT KRPC, kind "krpc") and a HELLO of a peer that holds
\* the mesh secret but speaks a later protocol version (kind "v2").
AlienSend(dst, kind) ==
  /\ net' = net \cup
       {[src |-> SilentPeer, dst |-> dst, port |-> ExchangePort] @@
        [SealEnvelope(MessageTypeHello,
                      [CreateAnnouncement(SilentPeer, MeshIPOf(SilentPeer),
                                          LocalWGEndpoint, <<>>, {}, Clock(dst))
                         EXCEPT !.Protocol = "wgmesh-v2"],
                      secret[dst], FreshNonce(net))
           EXCEPT !.json = (kind = "v2")]}
  /\ UNCHANGED <<daemonVars, now, secret, skew, localNode, digest, dht, calls, lastHello, store, pending, exch, contacted,
                 wgPeers, lastTick, log>>

\* A datagram in flight is damaged: a flipped bit of the ciphertext or tag
\* (kind "bitflip"), a nonce cut short (kind "nonce").
Corrupt(pkt, kind) ==
  /\ pkt \in net
  /\ pkt.json /\ pkt.intact /\ pkt.NonceLen = NonceSize
  /\ net' = (net \ {pkt}) \cup
            {IF kind = "bitflip" THEN [pkt EXCEPT !.intact = FALSE]
                                 ELSE [pkt EXCEPT !.NonceLen = NonceSize - 1]}
  /\ UNCHANGED <<daemonVars, now, secret, skew, localNode, digest, dht, calls, lastHello, store, pending, exch, contacted,
                 wgPeers, lastTick, log>>

\* A datagram in flight comes back to the socket that sent it, from the
\* address it was sent to (an echoing or replaying host at that address).
Reflect(pkt) ==
  /\ pkt \in net
  /\ pkt.src \in Nodes
  /\ net' = (net \ {pkt}) \cup {[pkt EXCEPT !.src = pkt.dst, !.dst = pkt.src]}
  /\ UNCHANGED <<daemonVars, now, secret, skew, localNode, digest, dht, calls, lastHello, store, pending, exch, contacted,
                 wgPeers, lastTick, log>>

\* --------------------------------------------------------- Daemon.reconcile
\* One reconcile tick: nothing at all when no peer is active; else set_peer
\* for every active peer but ourselves, then CleanupStale and remove_peer
\* for every evicted pubkey.
reconcile(n) ==
  LET peers == GetActive(store[n], Clock(n))
      removed == StaleKeys(store[n], Clock(n))
  IN IF peers = {}
     THEN /\ lastTick' = [node |-> n, ran |-> "early", active |-> peers,
                          configured |-> {}, evicted |-> {}]
          /\ UNCHANGED <<store, wgPeers>>
     ELSE /\ lastTick' = [node |-> n, ran |-> "full", active |-> peers,
                          configured |-> peers \ {PubKey(n)}, evicted |-> removed]
          /\ wgPeers' = [wgPeers EXCEPT ![n] =
                           (@ \cup (peers \ {PubKey(n)})) \ removed]
          /\ store' = [store EXCEPT ![n] = CleanupStale(@, Clock(n))]

\* reconcileLoop: the ticker fires at node n.
Reconcile(n) ==
  /\ reconcile(n)
  /\ UNCHANGED <<daemonVars, now, secret, skew, localNode, digest, dht, calls, lastHello, net, pending, exch, contacted, sends, log>>

\* ------------------------------------------------------- the specifications
\* Node 2's clock may run ahead of the others.
SkewChoices == {0, MaxMessageAge, MaxMessageAge + MinuteStep}

\* What node 2 holds of the silent member, discovered on its LAN at start.
SilentInfo(t) ==
  [WGPubKey |-> SilentPeer, MeshIP |-> MeshIPOf(SilentPeer),
   Endpoint |-> <<IPOf(SilentPeer), DefaultWGPort>>,
   RoutableNetworks |-> <<>>, LastSeen |-> t, DiscoveredVia |-> <<LANMethod>>]

\* The daemon followed from its command line on is not looked at.
DaemonIdle ==
  /\ startup = NoStartup
  /\ derived = NoDerivation
  /\ router = NoRouter
  /\ run = NoRun
  /\ driver = NoDriver
  /\ heap = NoHeap
  /\ detected = NoDetection
  /\ routes = NoRoutes
  /\ applied = NoApply
  /\ unit = NoUnit
  /\ life = NoLife
  /\ disc = NoDisc
  /\ reg = NoRegistry
  /\ check = NoCheck

InitCommonMesh ==
  /\ now = 0
  /\ net = {}
  /\ pending = [n \in Nodes |-> <<>>]
  /\ exch = [n \in Nodes |-> NoExchange]
  /\ contacted = [n \in Nodes |-> <<>>]
  /\ sends = 0
  /\ wgPeers = [n \in Nodes |-> {}]
  /\ lastTick = NoTick
  /\ log = NoLog
  /\ localNode = [n \in Nodes |-> [MeshIP |-> MeshIPOf(n),
                                    address |-> MeshIPOf(n), nonces |-> <<>>]]
  /\ digest = [i \in HashInputs |-> 0]
  /\ dht = [n \in Nodes |-> NoAnnounce]
  /\ calls = [g \in Goroutines |-> NoCall]
  /\ lastHello = [a \in Nodes \ {1} |-> -1]

InitCommon ==
  /\ InitCommonMesh
  /\ DaemonIdle

\* The peer exchange: nodes 1 and 2 share a secret, node 3 holds another.
Init ==
  /\ InitCommon
  /\ secret = [n \in Nodes |-> IF n = 3 THEN "secret-B" ELSE "secret-A"]
  /\ \E s \in SkewChoices : skew = [n \in Nodes |-> IF n = 2 THEN s ELSE 0]
  /\ store = [n \in Nodes |->
                IF n = 2 THEN Put(NewPeerStore, SilentPeer, SilentInfo(skew[2]))
                ELSE NewPeerStore]

\* Exchanges, pushes and foreign datagrams draw on one budget.
Spend == sends < MaxSends /\ sends' = sends + 1

\* The exchanges node 1 starts or receives.
Contacts == {<<1, 1>>, <<1, 2>>, <<1, 3>>, <<2, 1>>, <<3, 1>>}

Next ==
  \/ TickTo(MinuteStep, ExchangeHorizon)
  \/ \E c \in Contacts :
       /\ now + ExchangeTimeout <= ExchangeHorizon
       /\ Spend /\ ContactPeer(c[1], c[2])
  \/ \E n \in Nodes : SendHello(n)
  \/ \E n \in Nodes : ExchangeReply(n)
  \/ \E n \in Nodes : ExchangeTimedOut(n)
  \/ \E n \in Nodes : ContactDone(n)
  \/ \E n \in Nodes, pkt \in net : handleMessage(n, pkt)
  \/ \E n \in Nodes \ {1} : Spend /\ SendAnnounce(n, 1)
  \/ \E n \in {1, 3} : Spend /\ LANAnnounce(n, 1)
  \/ \E pkt \in net : listenLoop(1, pkt)
  \/ \E kind \in {"krpc", "v2"} : Spend /\ AlienSend(1, kind)
  \/ \E pkt \in net, kind \in {"bitflip", "nonce"} : Spend /\ Corrupt(pkt, kind)
  \/ \E pkt \in net : Spend /\ Reflect(pkt)

Spec == Init /\ [][Next]_vars

\* Aging at node 1: its peers announce themselves on the LAN, time passes,
\* the reconcile ticker fires.  All three nodes hold the same secret.  Node 1
\* starts with an empty store or with the entry an echoed REPLY of its own
\* leaves (SelfEntryReachable below).
SelfEntry ==
  [WGPubKey |-> PubKey(1), MeshIP |-> MeshIPOf(1),
   Endpoint |-> <<IPOf(2), DefaultWGPort>>,
   RoutableNetworks |-> AdvertiseRoutes(1), LastSeen |-> 0,
   DiscoveredVia |-> <<DHTMethod>>]

InitAging ==
  /\ InitCommon
  /\ secret = [n \in Nodes |-> "secret-A"]
  /\ skew = [n \in Nodes |-> 0]
  /\ \E own \in {NewPeerStore, Put(NewPeerStore, PubKey(1), SelfEntry)} :
       store = [n \in Nodes |-> IF n = 1 THEN own ELSE NewPeerStore]

NextAging ==
  \/ TickTo(AgingStep, AgingHorizon)
  \/ \E n \in Nodes \ {1} :
       Cardinality(net) < MaxInFlight /\ UNCHANGED sends /\ LANAnnounce(n, 1)
  \/ \E pkt \in net : listenLoop(1, pkt)
  \/ Reconcile(1)

SpecAging == InitAging /\ [][NextAging]_vars

\* The peer exchange under fair scheduling: a runnable goroutine of
\* contactPeer runs, a timer that is due fires, time does not stop.
Fairness ==
  /\ WF_vars(TickTo(MinuteStep, ExchangeHorizon))
  /\ \A n \in Nodes :
       WF_vars(SendHello(n) \/ ExchangeReply(n) \/ ExchangeTimedOut(n)
                 \/ ContactDone(n))

\* What bears on an exchange: the calls (answered between nodes 1 and 2,
\* unanswered to node 3), the listener, damage and echo on the wire.
NextExchange ==
  \/ TickTo(MinuteStep, ExchangeHorizon)
  \/ \E c \in Contacts \ {<<1, 1>>, <<3, 1>>} :
       /\ now + ExchangeTimeout <= ExchangeHorizon
       /\ Spend /\ ContactPeer(c[1], c[2])
  \/ \E n \in Nodes : SendHello(n)
  \/ \E n \in Nodes : ExchangeReply(n)
  \/ \E n \in Nodes : ExchangeTimedOut(n)
  \/ \E n \in Nodes : ContactDone(n)
  \/ \E n \in Nodes, pkt \in net : handleMessage(n, pkt)
  \/ \E pkt \in net : Spend /\ Corrupt(pkt, "bitflip")
  \/ \E pkt \in net : Spend /\ Reflect(pkt)

SpecFair == Init /\ [][NextExchange]_vars /\ Fairness

\* The start of SpecAging with node 1 in its own store is a state the
\* exchange reaches: ~SelfEntryReachable is violated under Spec.
SelfEntryReachable == Has(store[1], PubKey(1)) /\ store[1][PubKey(1)] = SelfEntry

\* ------------------------------------------------------------------- aging
\* Age of entry k of node n's store, by node n's clock.
Age(n, k) == Clock(n) - store[n][k].LastSeen

\* C1, as stated: every reconcile tick evicts; after any tick the store of
\* the node holds no peer last seen longer ago than the remove window, and
\* no such peer stays configured on the interface, whether or not any peer
\* is active.  The tick that finds no active peer returns before
\* CleanupStale, so this is violated.
C1_EveryTickEvicts ==
  [][Reconcile(1) =>
       /\ \A k \in DOMAIN store'[1] :
            (now' + skew'[1]) - store'[1][k].LastSeen <= PeerRemoveTimeout
       /\ \A k \in DOMAIN store[1] :
            Age(1, k) > PeerRemoveTimeout =>
              k \in lastTick'.evicted /\ k \notin wgPeers'[1]]_vars

\* C1, the state the violation ends in: a tick has run and left a peer in
\* the store that was last seen longer ago than the remove window.
C1_StaleAfterTick ==
  /\ lastTick.node = 1 /\ lastTick.ran = "early"
  /\ \E k \in DOMAIN store[1] \ {PubKey(1)} : Age(1, k) > PeerRemoveTimeout

C3_OnlyActiveOffered ==
  [][Reconcile(1) =>
       \A k \in lastTick'.configured :
         /\ k \in lastTick'.active
         /\ k # PubKey(1)
         /\ k \in DOMAIN store[1]
         /\ Age(1, k) <= PeerDeadTimeout
         /\ k \in wgPeers'[1]]_vars

\* C3 happens: a tick offered a peer while the store held the local node
\* and another peer past the active window, and offered neither.
C3_Witness ==
  /\ lastTick.node = 1 /\ lastTick.ran = "full"
  /\ lastTick.configured # {}
  /\ PubKey(1) \in DOMAIN store[1]
  /\ \E k \in DOMAIN store[1] \ lastTick.configured :
       k # PubKey(1) /\ Age(1, k) > PeerDeadTimeout

\* The local node, in its own store and active, is passed over by a tick
\* that offers another peer.
SelfPassedOver ==
  /\ lastTick.node = 1 /\ lastTick.ran = "full"
  /\ lastTick.configured # {}
  /\ PubKey(1) \in lastTick.active

\* ---------------------------------------------------------------- exchange
\* Datagram pkt is a well-formed wgmesh message for node n: sealed under
\* n's secret, undamaged, of protocol wgmesh-v1, stamped within
\* MaxMessageAge of n's clock.
Opens(n, pkt) ==
  /\ pkt.json /\ pkt.NonceLen = NonceSize
  /\ pkt.key = secret[n] /\ pkt.intact
  /\ pkt.ann.Protocol = "wgmesh-v1"
  /\ Clock(n) - pkt.ann.Timestamp <= MaxMessageAge
  /\ pkt.ann.Timestamp - Clock(n) <= MaxMessageAge

\* After the step, node n's store holds the sender of pkt as just seen and
\* as discovered by the exchange.
SenderMerged(n, pkt) ==
  /\ pkt.ann.WGPubKey \in DOMAIN store'[n]
  /\ store'[n][pkt.ann.WGPubKey].LastSeen = Clock(n)
  /\ store'[n][pkt.ann.WGPubKey].MeshIP = pkt.ann.MeshIP
  /\ Contains(store'[n][pkt.ann.WGPubKey].DiscoveredVia, "dht")

\* After the step, node n's store holds every known peer of pkt, itself
\* excepted, as just seen.
KnownPeersMerged(n, pkt) ==
  \A kp \in pkt.ann.KnownPeers :
    kp.WGPubKey # PubKey(n) =>
      /\ kp.WGPubKey \in DOMAIN store'[n]
      /\ store'[n][kp.WGPubKey].LastSeen = Clock(n)

\* C4: a datagram sealed under another secret, handed to the exchange
\* listener or to the LAN listener of a node, changes no store, no pending
\* reply and no exchange, and is answered by nothing; a registry entry
\* sealed under another secret yields no peer; and no store ever holds a
\* node of the other mesh.
C4_NoCrossSecret ==
  [][/\ \A n \in Nodes, pkt \in net :
          pkt.key # secret[n] /\ (handleMessage(n, pkt) \/ listenLoop(n, pkt)) =>
            /\ store' = store /\ pending' = pending /\ exch' = exch
            /\ net' = net \ {pkt}
            /\ decryptPeerList(pkt, secret[n], Clock(n)) = {}
     /\ \A n \in Nodes : \A k \in DOMAIN store'[n] \cap Nodes :
          secret[k] = secret[n]]_vars

\* C4 happens: the only datagram sent so far, the HELLO of node 3 (other
\* secret) to node 1, has been dropped by node 1 as undecryptable.
C4_Witness ==
  /\ sends = 1 /\ net = {}
  /\ exch[3].pc = "waiting" /\ exch[3].addr = 1
  /\ log = [node |-> 1, event |-> "non-wgmesh packet", why |-> "decryption failed"]
  /\ store[1] = NewPeerStore

\* C5: whatever datagram is in flight and whichever node opens it,
\* OpenEnvelope fails if the timestamp is more than MaxMessageAge from the
\* opener's clock, in the past or in the future, or the protocol tag is not
\* wgmesh-v1; so every announcement it accepts is within MaxMessageAge.
C5_Freshness ==
  \A pkt \in net : \A n \in Nodes :
    LET d == Clock(n) - pkt.ann.Timestamp
        err == OpenEnvelope(pkt, secret[n], Clock(n))
    IN /\ (d > MaxMessageAge \/ d < 0 - MaxMessageAge
             \/ pkt.ann.Protocol # "wgmesh-v1") => err # ""
       /\ err = "" => d <= MaxMessageAge /\ d >= 0 - MaxMessageAge

\* C5 happens: of two datagrams in flight between nodes whose clocks
\* differ, one is refused for its timestamp and one, stamped exactly
\* MaxMessageAge off the receiver's clock, opens.
C5_Witness ==
  \E p \in net, q \in net :
    /\ OpenEnvelope(p, secret[p.dst], Clock(p.dst))
         \in {"message too old", "message timestamp in future"}
    /\ OpenEnvelope(q, secret[q.dst], Clock(q.dst)) = ""
    /\ Clock(q.dst) - q.ann.Timestamp \in {MaxMessageAge, 0 - MaxMessageAge}

\* C6: a datagram handed to the exchange listener that is not JSON, is
\* tampered with, is sealed under another key, has a nonce of the wrong
\* length, carries another protocol tag or a timestamp more than
\* MaxMessageAge off, changes no store and no pending reply, reaches no
\* waiting exchange and is answered by nothing.
C6_FailedOpenFrame ==
  [][\A n \in Nodes, pkt \in net :
       handleMessage(n, pkt) /\ ~Opens(n, pkt) =>
         /\ store' = store /\ pending' = pending /\ exch' = exch
         /\ net' = net \ {pkt}]_vars

\* C6 happens: node 1 waits for the REPLY of node 2, the REPLY arrives
\* with a flipped bit and is dropped; the exchange still waits, its pending
\* entry is in place and node 1's store is still empty.
C6_Witness ==
  /\ log = [node |-> 1, event |-> "non-wgmesh packet", why |-> "decryption failed"]
  /\ exch[1].pc = "waiting" /\ exch[1].addr = 2 /\ exch[1].ch = <<>>
  /\ 2 \in DOMAIN pending[1]
  /\ PubKey(1) \in DOMAIN store[2]
  /\ store[1] = NewPeerStore /\ net = {}

\* C7: a well-formed HELLO of another node, handed to the exchange
\* listener, merges the sender and each of its known peers into the store
\* and puts exactly one datagram on the wire: a REPLY of the receiver,
\* sealed under its secret, addressed to the source of the HELLO.
C7_HelloAnswered ==
  [][\A n \in Nodes, pkt \in net :
       /\ handleMessage(n, pkt) /\ Opens(n, pkt)
       /\ pkt.MessageType = "HELLO" /\ pkt.ann.WGPubKey # PubKey(n)
       => /\ SenderMerged(n, pkt)
          /\ KnownPeersMerged(n, pkt)
          /\ Cardinality(net' \ net) = 1
          /\ \A r \in net' \ net :
               /\ r.MessageType = "REPLY" /\ r.src = n /\ r.dst = pkt.src
               /\ r.port = pkt.port /\ r.ann.WGPubKey = PubKey(n)
               /\ r.key = secret[n] /\ r.intact]_vars

\* C7 happens: node 1 has handled the HELLO of node 2, holds node 2 and
\* the peer node 2 knew of, and its REPLY to node 2 is on the wire.
C7_Witness ==
  /\ log = [node |-> 1, event |-> "valid HELLO", why |-> ""]
  /\ DOMAIN store[1] = {PubKey(2), PubKey(SilentPeer)}
  /\ \E r \in net : r.MessageType = "REPLY" /\ r.src = 1 /\ r.dst = 2
  /\ Cardinality(net) = 1

C9_UnsolicitedReplyMerged ==
  [][\A n \in Nodes, pkt \in net :
       /\ handleMessage(n, pkt) /\ Opens(n, pkt)
       /\ pkt.MessageType = "REPLY" /\ pkt.src \notin DOMAIN pending[n]
       => /\ SenderMerged(n, pkt)
          /\ KnownPeersMerged(n, pkt)
          /\ net' = net \ {pkt}
          /\ pending' = pending /\ exch' = exch]_vars

\* C9 happens: node 1's exchange with node 2 timed out and is over, and
\* the REPLY of node 2 that came after it has put node 2 and the peer it
\* knew of into node 1's store.
C9_Witness ==
  /\ log = [node |-> 1, event |-> "unsolicited REPLY", why |-> ""]
  /\ exch[1].pc = "idle" /\ 2 \in DOMAIN contacted[1]
  /\ pending[1] = <<>>
  /\ now >= contacted[1][2] + ExchangeTimeout
  /\ store[1][PubKey(2)].LastSeen = Clock(1)
  /\ PubKey(SilentPeer) \in DOMAIN store[1]

\* C10, as stated: a well-formed ANNOUNCE of another node, handed to the
\* exchange listener, is merged into the store and answered by nothing.
\* handleMessage knows HELLO and REPLY only, so this is violated.
C10_AnnounceMerged ==
  [][\A n \in Nodes, pkt \in net :
       /\ handleMessage(n, pkt) /\ Opens(n, pkt)
       /\ pkt.MessageType = "ANNOUNCE" /\ pkt.ann.WGPubKey # PubKey(n)
       => /\ SenderMerged(n, pkt)
          /\ net' = net \ {pkt}]_vars

\* C10, the state the violation ends in: the only datagram sent so far,
\* an ANNOUNCE of node 2 that node 1 could open, is gone and node 1's
\* store is still empty.
C10_AnnounceDropped ==
  /\ sends = 1 /\ net = {}
  /\ \A n \in Nodes : exch[n].pc = "idle"
  /\ log = [node |-> 1, event |-> "unknown message type", why |-> ""]
  /\ store[1] = NewPeerStore

\* ------------------------------------------------------ endpoint reflection
\* The entry node n holds of itself after a REPLY of its own came back to
\* it from the address of node `via` (handleReply has no check against the
\* local key).
EchoedEntry(n, via) ==
  [WGPubKey |-> PubKey(n), MeshIP |-> MeshIPOf(n),
   Endpoint |-> <<IPOf(via), DefaultWGPort>>,
   RoutableNetworks |-> AdvertiseRoutes(n), LastSeen |-> 0,
   DiscoveredVia |-> <<DHTMethod>>]

\* The endpoints a member of the mesh may advertise: the unspecified host
\* (what this daemon always sends), a concrete host other than the one its
\* datagrams come from, and a string that is no host:port.
AdvertisedEndpoints ==
  {LocalWGEndpoint, <<IPOf(2), DefaultWGPort>>, EmptyEndpoint}

\* A member that holds the secret but is no node of the model sends node
\* dst a well-formed message of the given type, on the exchange socket or
\* (messageType ANNOUNCE) on the LAN group, advertising `endpoint`.
MemberSend(dst, messageType, endpoint) ==
  /\ net' = net \cup
       {[src |-> SilentPeer, dst |-> dst,
         port |-> IF messageType = MessageTypeAnnounce
                  THEN LANMulticastPort ELSE ExchangePort] @@
        SealEnvelope(messageType,
                     CreateAnnouncement(PubKey(SilentPeer), MeshIPOf(SilentPeer),
                                        endpoint, <<>>, {}, Clock(dst)),
                     secret[dst], FreshNonce(net))}
  /\ UNCHANGED <<daemonVars, now, secret, skew, localNode, digest, dht, calls, lastHello, store, pending, exch, contacted,
                 wgPeers, lastTick, log>>

\* Nodes 1 and 2 of one mesh, clocks equal; node 2 starts with an empty
\* store or with the entry of itself that an echoed REPLY leaves
\* (EchoedEntryReachable below).
InitEndpoint ==
  /\ InitCommon
  /\ secret = [n \in Nodes |-> "secret-A"]
  /\ skew = [n \in Nodes |-> 0]
  /\ \E own \in {NewPeerStore, Put(NewPeerStore, PubKey(2), EchoedEntry(2, 1))} :
       store = [n \in Nodes |-> IF n = 2 THEN own ELSE NewPeerStore]

NextEndpoint ==
  \/ TickTo(MinuteStep, ExchangeHorizon)
  \/ \E c \in {<<1, 2>>, <<2, 1>>} :
       /\ now + ExchangeTimeout <= ExchangeHorizon
       /\ Spend /\ ContactPeer(c[1], c[2])
  \/ \E n \in Nodes : SendHello(n)
  \/ \E n \in Nodes : ExchangeReply(n)
  \/ \E n \in Nodes : ExchangeTimedOut(n)
  \/ \E n \in Nodes : ContactDone(n)
  \/ \E n \in Nodes, pkt \in net : handleMessage(n, pkt)
  \/ Spend /\ LANAnnounce(2, 1)
  \/ \E pkt \in net : listenLoop(1, pkt)
  \/ \E t \in {MessageTypeHello, MessageTypeReply, MessageTypeAnnounce},
        ep \in AdvertisedEndpoints : Spend /\ MemberSend(1, t, ep)

SpecEndpoint == InitEndpoint /\ [][NextEndpoint]_vars

\* The start of SpecEndpoint with node 2 in its own store is a state the
\* exchange reaches: ~EchoedEntryReachable is violated under Spec.
EchoedEntryReachable ==
  Has(store[2], PubKey(2)) /\ store[2][PubKey(2)] = EchoedEntry(2, 1)

\* What the sender of pkt advertises, with an unspecified host replaced by
\* the source address of the datagram.
Reflected(pkt) ==
  IF pkt.ann.WGEndpoint[1] = UnspecifiedHost
  THEN <<IPOf(pkt.src), pkt.ann.WGEndpoint[2]>>
  ELSE pkt.ann.WGEndpoint

\* Node n accepts pkt as a HELLO, as a REPLY no exchange waits for, or as
\* a LAN announcement, of a sender that advertises a host:port.
AcceptsDirectly(n, pkt) ==
  /\ Opens(n, pkt) /\ Len(pkt.ann.WGEndpoint) = 2
  /\ \/ /\ handleMessage(n, pkt) /\ pkt.MessageType = "HELLO"
        /\ pkt.ann.WGPubKey # PubKey(n)
     \/ /\ handleMessage(n, pkt) /\ pkt.MessageType = "REPLY"
        /\ pkt.src \notin DOMAIN pending[n]
     \/ listenLoop(n, pkt) /\ pkt.ann.WGPubKey # PubKey(n)

\* C11, as stated: after a HELLO, an unsolicited REPLY or a LAN
\* announcement is accepted, the endpoint stored for its sender is the
\* advertised one with an unspecified host replaced by the observed source
\* address; the record a solicited REPLY puts into the reply channel
\* carries that endpoint, and contactPeer stores it.  A HELLO whose
\* known_peers list the sender itself violates this: updateTransitivePeers
\* runs after Update and overwrites the endpoint just stored.
C11_EndpointReflected ==
  [][\A n \in Nodes :
       /\ \A pkt \in net :
            /\ AcceptsDirectly(n, pkt) =>
                 /\ pkt.ann.WGPubKey \in DOMAIN store'[n]
                 /\ store'[n][pkt.ann.WGPubKey].Endpoint = Reflected(pkt)
            /\ /\ handleMessage(n, pkt) /\ Opens(n, pkt)
               /\ Len(pkt.ann.WGEndpoint) = 2
               /\ pkt.MessageType = "REPLY" /\ pkt.src \in DOMAIN pending[n]
               /\ exch[n].ch = <<>>
               => /\ Len(exch'[n].ch) = 1
                  /\ exch'[n].ch[1].Endpoint = Reflected(pkt)
       /\ ContactDone(n) /\ exch[n].err = "" =>
            store'[n][exch[n].result[1].WGPubKey].Endpoint
              = exch[n].result[1].Endpoint]_vars

\* C11, the state the violation ends in: node 1 has just handled the HELLO
\* of node 2, which came from node 2's address, and holds node 2 under
\* another host.
C11_SenderEndpointOverwritten ==
  /\ log = [node |-> 1, event |-> "valid HELLO", why |-> ""]
  /\ \E r \in net : r.MessageType = "REPLY" /\ r.src = 1 /\ r.dst = 2
  /\ PubKey(2) \in DOMAIN store[1]
  /\ store[1][PubKey(2)].LastSeen = Clock(1)
  /\ store[1][PubKey(2)].Endpoint # <<IPOf(2), DefaultWGPort>>

\* Short of that HELLO, C11 holds: the same statement for every accepted
\* message whose known_peers do not list its own sender.
EndpointReflectedUnlessSelfListed ==
  [][\A n \in Nodes :
       /\ \A pkt \in net :
            /\ /\ AcceptsDirectly(n, pkt)
               /\ \A kp \in pkt.ann.KnownPeers : kp.WGPubKey # pkt.ann.WGPubKey
               => /\ pkt.ann.WGPubKey \in DOMAIN store'[n]
                  /\ store'[n][pkt.ann.WGPubKey].Endpoint = Reflected(pkt)
            /\ /\ handleMessage(n, pkt) /\ Opens(n, pkt)
               /\ Len(pkt.ann.WGEndpoint) = 2
               /\ pkt.MessageType = "REPLY" /\ pkt.src \in DOMAIN pending[n]
               /\ exch[n].ch = <<>>
               => /\ Len(exch'[n].ch) = 1
                  /\ exch'[n].ch[1].Endpoint = Reflected(pkt)
       /\ ContactDone(n) /\ exch[n].err = "" =>
            store'[n][exch[n].result[1].WGPubKey].Endpoint
              = exch[n].result[1].Endpoint]_vars

\* ------------------------------------------------------ mesh IP collisions
\* The base64 text of a WireGuard public key (all keys have one length),
\* as a sequence of character codes.
KeyText(k) ==
  CASE k = PubKey(1) -> <<2, 1>>
    [] k = PubKey(2) -> <<2, 2>>
    [] OTHER -> <<1, 2>>

\* strings.Compare: -1, 0 or 1 by the first position where a and b differ,
\* a proper prefix being the smaller.
RECURSIVE Compare(_, _)
Compare(a, b) ==
  IF a = <<>> THEN (IF b = <<>> THEN 0 ELSE -1)
  ELSE IF b = <<>> THEN 1
  ELSE IF Head(a) < Head(b) THEN -1
  ELSE IF Head(a) > Head(b) THEN 1
  ELSE Compare(Tail(a), Tail(b))

\* The mesh address 10.<subnet>.<hi>.<lo> of a suffix.
MeshAddress(suffix) == 256 + suffix

\* Suffix 0 becomes 1 and the largest suffix the one below it.
ClampSuffix(suffix) ==
  IF suffix = 0 THEN 1
  ELSE IF suffix = SuffixMax THEN SuffixMax - 1
  ELSE suffix

\* crypto.DeriveMeshIP
DeriveMeshIP(wgPubKey) == MeshAddress(ClampSuffix(digest[<<wgPubKey, NoNonce>>]))

DeriveMeshIPWithNonce(wgPubKey, nonce) ==
  MeshAddress(ClampSuffix(digest[<<wgPubKey, nonce>>]))

\* The winner by the first argument alone.
DeterministicWinnerFirstWins(peer1, peer2) == <<peer1, peer2>>

\* <<winner, loser>>
DeterministicWinner(peer1, peer2) ==
  IF Compare(KeyText(peer1.WGPubKey), KeyText(peer2.WGPubKey)) < 0
  THEN <<peer1, peer2>>
  ELSE <<peer2, peer1>>

\* DetectCollisions without the test for an empty address.
DetectCollisionsCountingEmpty(ps, order) ==
  LET firstAt(i) ==
        CHOOSE j \in 1..i :
          /\ ps[order[j]].MeshIP = ps[order[i]].MeshIP
          /\ \A h \in 1..(j - 1) : ps[order[h]].MeshIP # ps[order[i]].MeshIP
  IN {[MeshIP |-> ps[order[i]].MeshIP,
       Peer1 |-> ps[order[firstAt(i)]], Peer2 |-> ps[order[i]]] :
        i \in {i \in 1..Len(order) : firstAt(i) # i}}

\* PeerStore.DetectCollisions when the map is walked in the order `order`
\* (a sequence of the keys of ps): the first entry seen with an address
\* is kept, every later entry with that address is reported against it.
DetectCollisions(ps, order) ==
  LET firstAt(i) ==
        CHOOSE j \in 1..i :
          /\ ps[order[j]].MeshIP = ps[order[i]].MeshIP
          /\ \A h \in 1..(j - 1) : ps[order[h]].MeshIP # ps[order[i]].MeshIP
  IN {[MeshIP |-> ps[order[i]].MeshIP,
       Peer1 |-> ps[order[firstAt(i)]], Peer2 |-> ps[order[i]]] :
        i \in {i \in 1..Len(order) :
                 ps[order[i]].MeshIP # 0 /\ firstAt(i) # i}}

\* The orders in which a range over the map may visit its keys.
WalkOrders(ps) ==
  {o \in [1..Cardinality(DOMAIN ps) -> DOMAIN ps] :
     \A i, j \in DOMAIN o : i # j => o[i] # o[j]}

\* ResolveCollision: the address the loser is expected to take.
ResolveCollision(collision) ==
  DeriveMeshIPWithNonce(DeterministicWinner(collision.Peer1, collision.Peer2)[2].WGPubKey,
                        CollisionNonce)

\* Daemon.CheckAndResolveCollisions at node n.  localNode[n] changes when
\* some reported collision has the local key as its loser; the store is
\* read only.
CheckAndResolveCollisions(n) ==
  /\ \E order \in WalkOrders(store[n]) :
       LET collisions == DetectCollisions(store[n], order)
           lost == {c \in collisions :
                      DeterministicWinner(c.Peer1, c.Peer2)[2].WGPubKey = PubKey(n)}
           newIP == DeriveMeshIPWithNonce(PubKey(n), CollisionNonce)
       IN /\ collisions # {}
          /\ IF lost # {}
             THEN /\ Len(localNode[n].nonces) + Cardinality(lost) <= MaxRederivations
                  /\ localNode' =
                       [localNode EXCEPT
                          ![n] = [MeshIP |-> newIP, address |-> newIP,
                                  nonces |-> @.nonces \o
                                    [i \in 1..Cardinality(lost) |-> CollisionNonce]]]
             ELSE UNCHANGED localNode
  /\ UNCHANGED <<daemonVars, now, secret, skew, digest, dht, calls, lastHello, store, net, pending, exch, contacted,
                 sends, wgPeers, lastTick, log>>

\* The values the digest takes in the runs: the two that the clamp moves
\* and one that it leaves.
DigestValues == {0, SuffixMax - 1, SuffixMax}

\* What node m announces of itself.  The discovery layer works on a copy
\* of the daemon's LocalNode made when it is created, so the mesh address
\* it announces is the one derived at start.
AnnouncedInfo(m) ==
  [WGPubKey |-> PubKey(m), MeshIP |-> DeriveMeshIP(PubKey(m)),
   Endpoint |-> <<IPOf(m), DefaultWGPort>>,
   RoutableNetworks |-> AdvertiseRoutes(m)]

\* Node n merges what node m announces, as handleReply does with a REPLY
\* that no exchange waits for (m = n: a REPLY of its own that came back).
MergePeer(n, m) ==
  /\ store' = [store EXCEPT ![n] = Update(@, AnnouncedInfo(m), DHTMethod, Clock(n))]
  /\ UNCHANGED <<daemonVars, now, secret, skew, localNode, digest, dht, calls, lastHello, net, pending, exch,
                 contacted, sends, wgPeers, lastTick, log>>

\* Who merges whom in the runs.
MergePairs == {<<1, 1>>, <<1, 2>>, <<1, 3>>, <<2, 1>>, <<2, 3>>}

\* One mesh; the digest is any table over DigestValues (fixed where the
\* runs never read it: only node 1 merges an announcement of its own, so
\* only node 1 re-derives); every node starts with the address
\* initLocalNode derives and an empty store.
InitCollision ==
  /\ now = 0
  /\ net = {}
  /\ pending = [n \in Nodes |-> <<>>]
  /\ exch = [n \in Nodes |-> NoExchange]
  /\ contacted = [n \in Nodes |-> <<>>]
  /\ sends = 0
  /\ wgPeers = [n \in Nodes |-> {}]
  /\ lastTick = NoTick
  /\ log = NoLog
  /\ secret = [n \in Nodes |-> "secret-A"]
  /\ skew = [n \in Nodes |-> 0]
  /\ store = [n \in Nodes |-> NewPeerStore]
  /\ dht = [n \in Nodes |-> NoAnnounce]
  /\ calls = [g \in Goroutines |-> NoCall]
  /\ lastHello = [a \in Nodes \ {1} |-> -1]
  /\ DaemonIdle
  /\ digest \in [HashInputs -> DigestValues]
  /\ \A n \in Nodes \ {1} : digest[<<PubKey(n), CollisionNonce>>] = 0
  /\ localNode = [n \in Nodes |->
                    [MeshIP |-> DeriveMeshIP(PubKey(n)),
                     address |-> DeriveMeshIP(PubKey(n)), nonces |-> <<>>]]

NextCollision ==
  \/ \E c \in MergePairs : MergePeer(c[1], c[2])
  \/ \E n \in {1, 2} : CheckAndResolveCollisions(n)
  \/ Reconcile(1)

SpecCollision == InitCollision /\ [][NextCollision]_vars

\* The pairs of keys that node n holds under one mesh address.
Colliding(n) ==
  {c \in (DOMAIN store[n]) \X (DOMAIN store[n]) :
     /\ c[1] # c[2]
     /\ store[n][c[1]].MeshIP # 0
     /\ store[n][c[1]].MeshIP = store[n][c[2]].MeshIP}

\* The key that is smallest as text among the keys of ks.
SmallestKey(ks) ==
  CHOOSE k \in ks : \A j \in ks \ {k} : Compare(KeyText(k), KeyText(j)) < 0

\* The keys node n holds under the mesh address it holds key k under.
Holders(n, k) ==
  {j \in DOMAIN store[n] : store[n][j].MeshIP = store[n][k].MeshIP}

\* C12: of two peers under one mesh address DeterministicWinner names the
\* one whose key is the smaller text as winner, whichever is passed first;
\* two nodes that both see the collision name the same winner; and a call
\* of CheckAndResolveCollisions, like a reconcile tick, leaves the holder
\* with the smallest key its address (its own Daemon.localNode if that is the caller, its store
\* entry otherwise).
C12_WinnerKeepsAddress ==
  /\ [](\A n \in Nodes : \A c \in Colliding(n) :
          LET p == store[n][c[1]]
              q == store[n][c[2]]
          IN /\ DeterministicWinner(p, q) = DeterministicWinner(q, p)
             /\ Compare(KeyText(DeterministicWinner(p, q)[1].WGPubKey),
                        KeyText(DeterministicWinner(p, q)[2].WGPubKey)) < 0
             /\ \A m \in Nodes :
                  c \in Colliding(m) =>
                    DeterministicWinner(store[m][c[2]], store[m][c[1]])[1].WGPubKey
                      = DeterministicWinner(p, q)[1].WGPubKey)
  /\ [][\A n \in Nodes :
          CheckAndResolveCollisions(n) \/ Reconcile(n) =>
            \A c \in Colliding(n) :
              LET w == SmallestKey(Holders(n, c[1]))
              IN /\ w \in DOMAIN store'[n]
                 /\ store'[n][w].MeshIP = store[n][w].MeshIP
                 /\ w = PubKey(n) => localNode'[n].MeshIP = localNode[n].MeshIP]_vars

\* C12, the case: node 1 has lost a collision and re-derived, node 2 sees
\* the same two keys collide, and the winner is held under the contested
\* address by both.
C12_Witness ==
  /\ localNode[1].nonces # <<>>
  /\ \E c \in Colliding(1) \cap Colliding(2) :
       /\ c[2] = PubKey(1)
       /\ DeterministicWinner(store[1][c[1]], store[1][c[2]])[1].WGPubKey = c[1]
       /\ store[1][c[1]].MeshIP = store[2][c[1]].MeshIP

\* The peers in node n's store that hold the address of node n itself
\* and whose key is the smaller text.
WinsAgainst(n) ==
  {k \in DOMAIN store[n] \ {PubKey(n)} :
     /\ store[n][k].MeshIP = localNode[n].MeshIP
     /\ Compare(KeyText(k), KeyText(PubKey(n))) < 0}

\* C13, as stated: a reconcile tick at a node that holds the address of a
\* discovered peer with a smaller key leaves the node with another
\* address, set on its interface.  reconcile does not look at addresses
\* and nothing calls CheckAndResolveCollisions, so the tick changes
\* neither.
C13_LoserRederivesWithinTick ==
  [][Reconcile(1) /\ WinsAgainst(1) # {}
       => /\ localNode'[1].MeshIP # localNode[1].MeshIP
          /\ localNode'[1].address = localNode'[1].MeshIP]_vars

\* C13, the state after such a tick: node 1 has configured a peer that
\* holds node 1's own address and has the smaller key, and node 1 still
\* has the address it started with.
C13_CollisionOutlastsTick ==
  /\ lastTick.node = 1 /\ lastTick.ran = "full"
  /\ WinsAgainst(1) \cap lastTick.configured # {}
  /\ localNode[1].nonces = <<>>
  /\ localNode[1].address = DeriveMeshIP(PubKey(1))

\* What is left of C13 when CheckAndResolveCollisions is called: it
\* re-derives only when node 1 holds an entry of itself, and the address
\* it derives may be the contested one again.
RederivedStillCollides ==
  /\ localNode[1].nonces # <<>>
  /\ WinsAgainst(1) # {}

\* C14, as stated: the nonces a node has re-derived its address with
\* increase strictly, one lost collision after the other.  The code passes
\* the literal 1 every time.
C14_NonceIncreases ==
  \A n \in Nodes : \A i, j \in DOMAIN localNode[n].nonces :
    i < j => localNode[n].nonces[i] < localNode[n].nonces[j]

\* C14, the state that violates it: node 1 has lost two collisions and
\* derived both times with the same nonce, and holds the address that
\* nonce gives.
C14_SameNonceTwice ==
  /\ Len(localNode[1].nonces) = 2
  /\ localNode[1].nonces[1] = localNode[1].nonces[2]
  /\ localNode[1].MeshIP = DeriveMeshIPWithNonce(PubKey(1), CollisionNonce)

\* ------------------------------------------------------ the merge rule
\* How far time runs while the merge rule is exercised.
MergeHorizon == 1

\* The PeerInfo values Update is called with: one key, every field empty
\* or one of two values.
MergeInfos ==
  {[WGPubKey |-> PubKey(2), MeshIP |-> ip, Endpoint |-> ep, RoutableNetworks |-> rn] :
     ip \in {0, MeshIPOf(2), MeshIPOf(3)},
     ep \in {EmptyEndpoint, <<IPOf(2), DefaultWGPort>>, <<IPOf(3), DefaultWGPort>>},
     rn \in {<<>>, <<"192.168.1.0/24">>, <<"10.0.0.0/8", "172.16.0.0/12">>}}

\* The discovery methods the callers of Update pass.
MergeMethods == {DHTMethod, LANMethod, DHTMethod \o "-transitive"}

\* PeerStore.Update called on node n's store.
UpdateCall(n, info, discoveryMethod) ==
  /\ store' = [store EXCEPT ![n] = Update(@, info, discoveryMethod, Clock(n))]
  /\ UNCHANGED <<daemonVars, now, secret, skew, localNode, digest, dht, calls, lastHello, net, pending, exch,
                 contacted, sends, wgPeers, lastTick, log>>

\* Node 1's store holds one peer that the calls do not name.
InitMerge ==
  /\ InitCommon
  /\ secret = [n \in Nodes |-> "secret-A"]
  /\ skew = [n \in Nodes |-> 0]
  /\ store = [n \in Nodes |->
                IF n = 1
                THEN Put(NewPeerStore, PubKey(3),
                         [WGPubKey |-> PubKey(3), MeshIP |-> MeshIPOf(3),
                          Endpoint |-> <<IPOf(3), DefaultWGPort>>,
                          RoutableNetworks |-> <<>>, LastSeen |-> 0,
                          DiscoveredVia |-> <<LANMethod>>])
                ELSE NewPeerStore]

NextMerge ==
  \/ TickTo(MergeHorizon, MergeHorizon)
  \/ \E info \in MergeInfos, m \in MergeMethods : UpdateCall(1, info, m)

SpecMerge == InitMerge /\ [][NextMerge]_vars

\* The elements of a sequence.
AsSet(seq) == {seq[i] : i \in 1..Len(seq)}

\* C15: a call of Update for a key the store holds takes each of
\* endpoint, mesh_ip and routable_networks from the call when it is
\* non-empty there and keeps the stored one otherwise, and adds the method
\* to discovered_via unless it is there; for a key the store does not hold
\* it inserts the record of the call with discovered_via = <<method>>;
\* either way last_seen becomes the clock, every other entry stays as it
\* is, and every entry is stored under its own key.
C15_MergeRule ==
  [][\A info \in MergeInfos, m \in MergeMethods :
       UpdateCall(1, info, m) =>
         LET k == info.WGPubKey
             old == store[1]
             new == store'[1]
         IN /\ DOMAIN new = DOMAIN old \cup {k}
            /\ \A j \in DOMAIN old \ {k} : new[j] = old[j]
            /\ \A j \in DOMAIN new : new[j].WGPubKey = j
            /\ new[k].LastSeen = Clock(1)
            /\ Len(new[k].DiscoveredVia) = Cardinality(AsSet(new[k].DiscoveredVia))
            /\ IF k \in DOMAIN old
               THEN /\ new[k].Endpoint = IF info.Endpoint # EmptyEndpoint
                                         THEN info.Endpoint ELSE old[k].Endpoint
                    /\ new[k].MeshIP = IF info.MeshIP # 0
                                       THEN info.MeshIP ELSE old[k].MeshIP
                    /\ new[k].RoutableNetworks =
                         IF info.RoutableNetworks # <<>>
                         THEN info.RoutableNetworks ELSE old[k].RoutableNetworks
                    /\ AsSet(new[k].DiscoveredVia) = AsSet(old[k].DiscoveredVia) \cup {m}
               ELSE /\ new[k].Endpoint = info.Endpoint
                    /\ new[k].MeshIP = info.MeshIP
                    /\ new[k].RoutableNetworks = info.RoutableNetworks
                    /\ new[k].DiscoveredVia = <<m>>]_vars

\* C15, the case: the entry was inserted with all fields set, then updated
\* at a later time by calls that left at least one field empty and named
\* all three methods, next to the untouched other entry.
C15_Witness ==
  /\ PubKey(2) \in DOMAIN store[1]
  /\ store[1][PubKey(2)].LastSeen = MergeHorizon
  /\ Len(store[1][PubKey(2)].DiscoveredVia) = 3
  /\ store[1][PubKey(2)].DiscoveredVia[1] = LANMethod
  /\ store[1][PubKey(2)].MeshIP = MeshIPOf(3)
  /\ store[1][PubKey(2)].Endpoint = <<IPOf(2), DefaultWGPort>>
  /\ store[1][PubKey(3)].LastSeen = 0

\* Two stores that hold the same records, discovered_via read as a set.
SameRecords(a, b) ==
  /\ DOMAIN a = DOMAIN b
  /\ \A k \in DOMAIN a :
       /\ a[k].WGPubKey = b[k].WGPubKey
       /\ a[k].MeshIP = b[k].MeshIP
       /\ a[k].Endpoint = b[k].Endpoint
       /\ a[k].RoutableNetworks = b[k].RoutableNetworks
       /\ a[k].LastSeen = b[k].LastSeen
       /\ AsSet(a[k].DiscoveredVia) = AsSet(b[k].DiscoveredVia)

\* Update applied to node 1's store at node 1's clock.
Merged(ps, info, m) == Update(ps, info, m, Clock(1))

\* C16: at a fixed clock, calling Update with one PeerInfo and one method
\* twice or three times leaves what one call leaves, and calling it with
\* one PeerInfo under two methods leaves the same records in either order,
\* discovered_via read as a set.
C16_MergeIdempotentAnyOrder ==
  \A info \in MergeInfos, m1 \in MergeMethods, m2 \in MergeMethods :
    LET once == Merged(store[1], info, m1)
        twice == Merged(once, info, m1)
    IN /\ SameRecords(twice, once)
       /\ SameRecords(Merged(twice, info, m1), once)
       /\ SameRecords(Merged(once, info, m2),
                      Merged(Merged(store[1], info, m2), info, m1))

\* C16, the case: the store already holds the key after some calls, and
\* two further calls under two methods leave discovered_via in another
\* order when swapped.
C16_Witness ==
  /\ PubKey(2) \in DOMAIN store[1]
  /\ store[1][PubKey(2)].DiscoveredVia = <<LANMethod>>
  /\ \E info \in MergeInfos, m1 \in MergeMethods, m2 \in MergeMethods :
       Merged(Merged(store[1], info, m1), info, m2)
         # Merged(Merged(store[1], info, m2), info, m1)

\* ------------------------------------------------------ transitive discovery
\* How far time runs while the third node joins.
TransitiveHorizon == 7

\* The entry node n holds of node m after an exchange between the two at
\* time 0.
DirectEntry(m) ==
  [WGPubKey |-> PubKey(m), MeshIP |-> MeshIPOf(m),
   Endpoint |-> <<IPOf(m), DefaultWGPort>>,
   RoutableNetworks |-> AdvertiseRoutes(m), LastSeen |-> 0,
   DiscoveredVia |-> <<DHTMethod>>]

\* Nodes 1 and 2 hold each other; node 3, of the same mesh, knows nobody.
InitTransitive ==
  /\ InitCommon
  /\ secret = [n \in Nodes |-> "secret-A"]
  /\ skew = [n \in Nodes |-> 0]
  /\ store = [n \in Nodes |->
                CASE n = 1 -> Put(NewPeerStore, PubKey(2), DirectEntry(2))
                  [] n = 2 -> Put(NewPeerStore, PubKey(1), DirectEntry(1))
                  [] OTHER -> NewPeerStore]

\* No datagram to a node is on its way: the time unit is far longer than
\* a datagram travels.
Delivered == \A pkt \in net : pkt.dst \notin Nodes

\* Node 3 is handed the address of node 2 by its DHT query, once and
\* early enough for node 1's next contact of node 2 to fall inside the
\* time followed; node 1 is handed the address of node 2 by every query
\* round (contactPeer lets one in a minute through), and once an address
\* where nobody listens.
NextTransitive ==
  \/ Delivered /\ TickTo(MinuteStep, TransitiveHorizon)
  \/ /\ contacted[3] = <<>>
     /\ now + ContactDebounce <= TransitiveHorizon
     /\ UNCHANGED sends /\ ContactPeer(3, 2)
  \/ UNCHANGED sends /\ ContactPeer(1, 2)
  \/ /\ SilentPeer \notin DOMAIN contacted[1]
     /\ now + ExchangeTimeout <= TransitiveHorizon
     /\ UNCHANGED sends /\ ContactPeer(1, SilentPeer)
  \/ \E n \in Nodes : SendHello(n)
  \/ \E n \in Nodes : ExchangeReply(n)
  \/ \E n \in Nodes : ExchangeTimedOut(n)
  \/ \E n \in Nodes : ContactDone(n)
  \/ \E n \in Nodes, pkt \in net : handleMessage(n, pkt)

\* Time passes, a started exchange runs on, the query loop of node 1 keeps
\* reporting node 2, and a datagram sent is received.
FairnessTransitive ==
  /\ WF_vars(Delivered /\ TickTo(MinuteStep, TransitiveHorizon))
  /\ \A n \in Nodes :
       WF_vars(SendHello(n) \/ ExchangeReply(n) \/ ExchangeTimedOut(n)
                 \/ ContactDone(n))
  /\ WF_vars(UNCHANGED sends /\ ContactPeer(1, 2))
  /\ WF_vars(\E n \in Nodes, pkt \in net : handleMessage(n, pkt))

SpecTransitive == InitTransitive /\ [][NextTransitive]_vars /\ FairnessTransitive

\* Node n holds node m as an active peer.
ActiveAt(n, m) == PubKey(m) \in GetActive(store[n], Clock(n))

\* C17: once node 3 has started its exchange with node 2, node 1 comes to
\* hold node 3 as an active peer and node 3 node 1; and the entries the
\* two hold of each other, which they can have from known_peers lists
\* only, name "dht-transitive" as their one discovery method.
C17_TransitiveDiscovery ==
  /\ (contacted[3] # <<>>) ~> (ActiveAt(1, 3) /\ ActiveAt(3, 1))
  /\ [](\A c \in {<<1, 3>>, <<3, 1>>} :
          Has(store[c[1]], PubKey(c[2])) =>
            store[c[1]][PubKey(c[2])].DiscoveredVia = <<DHTMethod \o "-transitive">>)

\* C17, the case: nodes 1 and 3 hold each other as active peers, each
\* with the address node 2 saw the other at, and never exchanged a
\* datagram.
C17_Witness ==
  /\ ActiveAt(1, 3) /\ ActiveAt(3, 1)
  /\ store[1][PubKey(3)].Endpoint = <<IPOf(3), DefaultWGPort>>
  /\ store[3][PubKey(1)].Endpoint = <<IPOf(1), DefaultWGPort>>
  /\ store[1][PubKey(3)].DiscoveredVia = <<DHTMethod \o "-transitive">>
  /\ 3 \notin DOMAIN contacted[1] /\ 1 \notin DOMAIN contacted[3]

\* ------------------------------------------------------ daemons started by join
\* Daemons of one mesh on one subnet, as RunWithDHTDiscovery leaves them.
InitJoin ==
  /\ InitCommon
  /\ secret = [n \in Nodes |-> "secret-A"]
  /\ skew = [n \in Nodes |-> 0]
  /\ store = [n \in Nodes |-> NewPeerStore]

\* What runs in a daemon started by join: the peer exchange listener and
\* the DHT loops (DHTDiscovery.Start), whose queries may hand nodes 1 and
\* 2 each other's address, and the reconcile loop.  RunWithDHTDiscovery
\* creates no LANDiscovery, so nothing announces on or listens to the LAN
\* group.
NextJoin ==
  \/ TickTo(MinuteStep, ExchangeHorizon)
  \/ \E c \in {<<1, 2>>, <<2, 1>>} :
       /\ now + ExchangeTimeout <= ExchangeHorizon
       /\ Spend /\ ContactPeer(c[1], c[2])
  \/ \E n \in Nodes : SendHello(n)
  \/ \E n \in Nodes : ExchangeReply(n)
  \/ \E n \in Nodes : ExchangeTimedOut(n)
  \/ \E n \in Nodes : ContactDone(n)
  \/ \E n \in Nodes, pkt \in net : handleMessage(n, pkt)
  \/ \E n \in {1, 2} : Reconcile(n)

\* Time passes, started exchanges run on, datagrams are received, the
\* reconcile ticker fires.
FairnessJoin ==
  /\ WF_vars(TickTo(MinuteStep, ExchangeHorizon))
  /\ \A n \in Nodes :
       WF_vars(SendHello(n) \/ ExchangeReply(n) \/ ExchangeTimedOut(n)
                 \/ ContactDone(n))
  /\ WF_vars(\E n \in Nodes, pkt \in net : handleMessage(n, pkt))
  /\ \A n \in {1, 2} : WF_vars(Reconcile(n))

SpecJoin == InitJoin /\ [][NextJoin]_vars /\ FairnessJoin

\* Node n holds node m as an active peer found on the LAN and has
\* configured it on its interface.
ConvergedOnLAN(n, m) ==
  /\ ActiveAt(n, m)
  /\ Contains(store[n][PubKey(m)].DiscoveredVia, LANMethod)
  /\ PubKey(m) \in wgPeers[n]

\* C18, as stated: two daemons started by join on one subnet come to hold
\* each other as active peers tagged "lan" and to configure each other.
\* A daemon started by join runs no LAN discovery, so no entry is ever
\* tagged "lan".
C18_LANConvergence == <>(ConvergedOnLAN(1, 2) /\ ConvergedOnLAN(2, 1))

\* C18, where the daemons end up at best: each has found the other through
\* the DHT and configured it, and neither entry names "lan".
C18_FoundWithoutLAN ==
  /\ ActiveAt(1, 2) /\ ActiveAt(2, 1)
  /\ PubKey(2) \in wgPeers[1] /\ PubKey(1) \in wgPeers[2]
  /\ ~Contains(store[1][PubKey(2)].DiscoveredVia, LANMethod)
  /\ ~Contains(store[2][PubKey(1)].DiscoveredVia, LANMethod)

\* No entry of a daemon started by join is ever tagged "lan".
JoinNeverTagsLAN ==
  \A n \in Nodes : \A k \in DOMAIN store[n] :
    ~Contains(store[n][k].DiscoveredVia, LANMethod)

\* ------------------------------------------------------ DHT rendezvous
\* One hour, and the time between two announces, in units of 10 s.
HourUnits == 360
DHTAnnounceInterval == 90

\* How far time moves in one step, at most.
RendezvousStep == 15

\* The instants the runs start at and end at: around the start of an
\* hour, and an hour and a half later.
RendezvousStarts ==
  {2 * HourUnits - 1, 2 * HourUnits, 2 * HourUnits + RendezvousStep \div 2}
RendezvousEnd == 3 * HourUnits + HourUnits \div 2

\* By how much the clock of node 2 is ahead: nothing, a quarter of an
\* hour, three quarters, and ten seconds less than a whole hour.
RendezvousSkews ==
  {0, DHTAnnounceInterval, HourUnits - DHTAnnounceInterval, HourUnits - 1}

\* The network ID of the hour of t: the digest of the secret and
\* floor(t / one hour).
DeriveNetworkIDWithTime(sec, t) == <<sec, t \div HourUnits>>

\* The pair with the ID of the current hour twice.
CurrentNetworkIDOnly(sec, t) ==
  <<DeriveNetworkIDWithTime(sec, t), DeriveNetworkIDWithTime(sec, t)>>

\* <<current, previous>>
GetCurrentAndPreviousNetworkIDs(sec, t) ==
  <<DeriveNetworkIDWithTime(sec, t), DeriveNetworkIDWithTime(sec, t - HourUnits)>>

\* The IDs node n announces under and queries, by its clock.
NetworkIDs(n) ==
  LET ids == GetCurrentAndPreviousNetworkIDs(secret[n], Clock(n))
  IN {ids[1], ids[2]}

\* The announce ticker of node n has fired and announce has not run yet.
AnnounceDue(n) == dht[n].at >= 0 /\ now >= dht[n].at + DHTAnnounceInterval

\* DHTDiscovery.announce at node n: at its start, and whenever its ticker
\* fires.
announce(n) ==
  /\ dht[n].at < 0 \/ AnnounceDue(n)
  /\ dht' = [dht EXCEPT ![n] = [@ EXCEPT !.at = now, !.ids = NetworkIDs(n)]]
  /\ UNCHANGED <<daemonVars, now, secret, skew, localNode, digest, calls, lastHello, store, net, pending, exch,
                 contacted, sends, wgPeers, lastTick, log>>

\* DHTDiscovery.queryPeers at node n: the lookups of its two IDs return
\* the nodes whose latest announce was under one of them.
queryPeers(n) ==
  /\ \A m \in Nodes : ~AnnounceDue(m)
  /\ dht' = [dht EXCEPT ![n].found =
               {m \in Nodes : dht[m].ids \cap NetworkIDs(n) # {}}]
  /\ UNCHANGED <<daemonVars, now, secret, skew, localNode, digest, calls, lastHello, store, net, pending, exch,
                 contacted, sends, wgPeers, lastTick, log>>

\* Time moves on, up to the next firing of an announce ticker.  Node 1 is
\* started at the first instant and node 2 before node 1 announces again,
\* which covers every phase between the two tickers.
RendezvousTick ==
  /\ \A n \in Nodes : ~AnnounceDue(n)
  /\ dht[1].at >= 0
  /\ dht[2].at < 0 => now + RendezvousStep < dht[1].at + DHTAnnounceInterval
  /\ \E d \in 1..RendezvousStep :
       /\ now + d <= RendezvousEnd
       /\ \/ d = RendezvousStep
          \/ \E n \in Nodes : dht[n].at >= 0 /\ now + d = dht[n].at + DHTAnnounceInterval
       /\ \A n \in Nodes :
            dht[n].at >= 0 => now + d <= dht[n].at + DHTAnnounceInterval
       /\ now' = now + d
  /\ dht' = [n \in Nodes |-> [dht[n] EXCEPT !.found = {}]]
  /\ UNCHANGED <<daemonVars, secret, skew, localNode, digest, calls, lastHello, store, net, pending, exch,
                 contacted, sends, wgPeers, lastTick, log>>

\* Nodes 1 and 2 of one mesh, not started yet; the clock of node 2 is
\* ahead by one of RendezvousSkews.
InitRendezvous ==
  /\ now \in RendezvousStarts
  /\ net = {}
  /\ pending = [n \in Nodes |-> <<>>]
  /\ exch = [n \in Nodes |-> NoExchange]
  /\ contacted = [n \in Nodes |-> <<>>]
  /\ sends = 0
  /\ wgPeers = [n \in Nodes |-> {}]
  /\ lastTick = NoTick
  /\ log = NoLog
  /\ localNode = [n \in Nodes |-> [MeshIP |-> MeshIPOf(n),
                                    address |-> MeshIPOf(n), nonces |-> <<>>]]
  /\ digest = [i \in HashInputs |-> 0]
  /\ dht = [n \in Nodes |-> NoAnnounce]
  /\ calls = [g \in Goroutines |-> NoCall]
  /\ lastHello = [a \in Nodes \ {1} |-> -1]
  /\ DaemonIdle
  /\ secret = [n \in Nodes |-> "secret-A"]
  /\ \E s \in RendezvousSkews : skew = [n \in Nodes |-> IF n = 2 THEN s ELSE 0]
  /\ store = [n \in Nodes |-> NewPeerStore]

NextRendezvous ==
  \/ RendezvousTick
  \/ \E n \in {1, 2} : announce(n)
  \/ \E n \in {1, 2} : queryPeers(n)

SpecRendezvous == InitRendezvous /\ [][NextRendezvous]_vars

\* By how much the clocks of nodes n and m differ.
ClockDifference(n, m) ==
  IF Clock(n) >= Clock(m) THEN Clock(n) - Clock(m) ELSE Clock(m) - Clock(n)

\* Node n, querying now, uses an ID that node m last announced under.
Rendezvous(n, m) == dht[m].ids \cap NetworkIDs(n) # {}

C19_NoSharedID ==
  /\ skew[2] = HourUnits - 1
  /\ dht[1].at >= 0 /\ ~AnnounceDue(1)
  /\ dht[2].at >= 0 /\ 1 \notin dht[2].found /\ 2 \in dht[2].found

\* ------------------------------------------------------------------
\* Contact debounce: the goroutines queryInfohash starts for the
\* addresses a lookup reports, as they run contactPeer at node 1.
\* ------------------------------------------------------------------

\* How long the goroutines are followed: two debounce windows and 10 s.
DebounceHorizon == 13

\* The addresses the lookups report to node 1.
ReportedAddrs == Nodes \ {1}

\* contactPeer's test under d.mu: the address has a stamp in
\* contactedPeers that is less than 60 s old.
RecentlyContactedShortWindow(n, a) ==
  /\ a \in DOMAIN contacted[n]
  /\ Clock(n) - contacted[n][a] < ContactDebounce - 1

RecentlyContacted(n, a) ==
  /\ a \in DOMAIN contacted[n]
  /\ Clock(n) - contacted[n][a] < ContactDebounce

\* queryInfohash, reading an address off peers.Peers, whether it runs for
\* the current or for the previous hour's ID: go d.contactPeer(addr).
\* The goroutine has not taken d.mu yet.
queryInfohash(g, a) ==
  /\ calls[g].pc = "idle"
  /\ calls' = [calls EXCEPT ![g] = [pc |-> "start", addr |-> a]]
  /\ UNCHANGED <<daemonVars, now, secret, skew, localNode, digest, dht, lastHello, store,
                 net, pending, exch, contacted, sends, wgPeers, lastTick,
                 log>>

\* contactPeer from its first line to d.mu.Unlock(): the own-address test,
\* then test and stamp of contactedPeers in one critical section.  It
\* returns when the address was contacted less than 60 s ago.
contactPeer(g) ==
  /\ calls[g].pc = "start"
  /\ LET a == calls[g].addr
     IN IF AddrOf(a) = LocalWGEndpoint \/ RecentlyContacted(1, a)
        THEN /\ calls' = [calls EXCEPT ![g] = NoCall]
             /\ UNCHANGED contacted
        ELSE /\ contacted' = [contacted EXCEPT ![1] = Put(@, a, Clock(1))]
             /\ calls' = [calls EXCEPT ![g].pc = "unlocked"]
  /\ UNCHANGED <<daemonVars, now, secret, skew, localNode, digest, dht, lastHello, store,
                 net, pending, exch, sends, wgPeers, lastTick, log>>

\* ExchangeWithPeer up to WriteToUDP: the reply channel is registered and
\* the HELLO leaves.  Nothing between the unlock and the write waits for
\* anything, so no time passes in between (see TickDebounce).
ExchangeWithPeer(g) ==
  /\ calls[g].pc = "unlocked"
  /\ LET a == calls[g].addr
     IN /\ pending' = [pending EXCEPT ![1] = Put(@, a, "replyCh")]
        /\ net' = net \cup {Datagram(1, store[1], a, MessageTypeHello,
                                     FreshNonce(net))}
        /\ lastHello' = [lastHello EXCEPT ![a] = now]
  /\ calls' = [calls EXCEPT ![g].pc = "waiting"]
  /\ UNCHANGED <<daemonVars, now, secret, skew, localNode, digest, dht, store, exch,
                 contacted, sends, wgPeers, lastTick, log>>

\* The rest of ExchangeWithPeer and of contactPeer for an address that
\* does not answer: time.After(ExchangeTimeout) fires, the deferred
\* clearPendingReplyChannel runs, contactPeer returns on the error.
ExchangeGivenUp(g) ==
  /\ calls[g].pc = "waiting"
  /\ now >= lastHello[calls[g].addr] + ExchangeTimeout
  /\ pending' = [pending EXCEPT ![1] = Remove(@, calls[g].addr)]
  /\ calls' = [calls EXCEPT ![g] = NoCall]
  /\ UNCHANGED <<daemonVars, now, secret, skew, localNode, digest, dht, lastHello, store,
                 net, exch, contacted, sends, wgPeers, lastTick, log>>

\* 10 s pass.  A goroutine may sit between `go` and d.mu.Lock() or in the
\* select of ExchangeWithPeer for as long as it takes, but not between
\* the unlock and the write of its HELLO.
TickDebounce ==
  /\ \A g \in Goroutines : calls[g].pc # "unlocked"
  /\ now < DebounceHorizon
  /\ now' = now + 1
  /\ UNCHANGED <<daemonVars, secret, skew, localNode, digest, dht, calls, lastHello,
                 store, net, pending, exch, contacted, sends, wgPeers,
                 lastTick, log>>

InitDebounce ==
  /\ InitCommon
  /\ secret = [n \in Nodes |-> "secret-A"]
  /\ skew = [n \in Nodes |-> 0]
  /\ store = [n \in Nodes |-> NewPeerStore]

NextDebounce ==
  \/ TickDebounce
  \/ \E g \in Goroutines, a \in ReportedAddrs : queryInfohash(g, a)
  \/ \E g \in Goroutines : contactPeer(g)
  \/ \E g \in Goroutines : ExchangeWithPeer(g)
  \/ \E g \in Goroutines : ExchangeGivenUp(g)

SpecDebounce == InitDebounce /\ [][NextDebounce]_vars

\* C20: two HELLOs of the DHT layer to one address are at least 60 s
\* apart, whichever goroutines send them and however their steps
\* interleave: a HELLO leaves for an address only if none left for it
\* before or the last one left 60 s ago or earlier, and no two goroutines
\* are ever past the debounce test for the same address together.
C20_ContactDebounce ==
  /\ [](\A g, h \in Goroutines :
          (/\ g # h
           /\ calls[g].pc = "unlocked"
           /\ calls[h].pc = "unlocked") => calls[g].addr # calls[h].addr)
  /\ [][\A a \in ReportedAddrs :
          lastHello'[a] # lastHello[a]
            => \/ lastHello[a] = -1
               \/ lastHello'[a] - lastHello[a] >= ContactDebounce]_vars

\* A second HELLO has left for an address 60 s after the first, while
\* another goroutine holds the same address and has not yet taken d.mu.
C20_Witness ==
  \E g, h \in Goroutines, a \in ReportedAddrs :
    /\ g # h
    /\ calls[g] = [pc |-> "waiting", addr |-> a]
    /\ calls[h] = [pc |-> "start", addr |-> a]
    /\ now = DebounceHorizon - 1
    /\ lastHello[a] = now
    /\ contacted[1][a] = Clock(1)
    /\ Cardinality({p \in net : p.dst = a}) = 2

\* ------------------------------------------------------------------
\* The join command: from the --secret flag to a Config and a running
\* daemon, or to an error and exit.
\* ------------------------------------------------------------------

\* A mesh nobody acts in, for the specifications that follow one daemon.
MeshIdle ==
  /\ InitCommonMesh
  /\ secret = [n \in Nodes |-> "secret-A"]
  /\ skew = [n \in Nodes |-> 0]
  /\ store = [n \in Nodes |-> NewPeerStore]

\* The longest run of secret characters tried.
MaxSecretChars == 23

MinSecretLength == 16

\* A text is a sequence of pieces; a piece is a literal or a run of n
\* base64url characters, and takes n bytes.
Lit(str, bytes) == [s |-> str, n |-> bytes]
Run(k) == [s |-> "base64url", n |-> k]
URIPrefix == Lit("wgmesh://", 9)
URIVersion == Lit("v1", 2)
Slash == Lit("/", 1)
QuestionMark == Lit("?", 1)
Param == Lit("name=mesh", 9)
Blank == Lit(" ", 1)

\* len(text) in bytes
RECURSIVE ByteLen(_)
ByteLen(text) ==
  IF text = <<>> THEN 0 ELSE Head(text).n + ByteLen(Tail(text))

\* base64.RawURLEncoding.DecodedLen: the bytes that k characters encode
DecodedLen(k) == (k * 6) \div 8

\* strings.TrimSpace
RECURSIVE TrimLeft(_)
TrimLeft(text) ==
  IF text # <<>> /\ Head(text) = Blank THEN TrimLeft(Tail(text)) ELSE text

RECURSIVE TrimRight(_)
TrimRight(text) ==
  IF text # <<>> /\ text[Len(text)] = Blank
  THEN TrimRight(SubSeq(text, 1, Len(text) - 1))
  ELSE text

TrimSpace(text) == TrimRight(TrimLeft(text))

\* strings.Index for a one-byte literal: the position of its first
\* occurrence, 0 when there is none
Index(text, piece) ==
  IF \E i \in 1..Len(text) : text[i] = piece
  THEN CHOOSE i \in 1..Len(text) :
         text[i] = piece /\ \A j \in 1..(i - 1) : text[j] # piece
  ELSE 0

parseSecret(input) ==
  LET trimmed == TrimSpace(input)
  IN IF trimmed # <<>> /\ Head(trimmed) = URIPrefix
     THEN LET rest == Tail(trimmed)
              cut == Index(rest, Slash)
          IN IF cut # 0
             THEN LET sec == SubSeq(rest, cut + 1, Len(rest))
                      idx == Index(sec, QuestionMark)
                  IN IF idx # 0 THEN SubSeq(sec, 1, idx - 1) ELSE sec
             ELSE rest
     ELSE trimmed

\* DeriveKeys: every key is a hash of the secret text under its own salt,
\* so the keys are told apart by the secret they come from.
DeriveKeys(sec) ==
  IF ByteLen(sec) < MinSecretLength
  THEN [keys |-> <<>>, err |-> "secret must be at least 16 characters"]
  ELSE [keys |-> <<[NetworkID |-> <<"sha256", sec>>,
                    GossipKey |-> <<"wgmesh-gossip-v1", sec>>,
                    MeshSubnet |-> <<"wgmesh-subnet-v1", sec>>,
                    PSK |-> <<"wgmesh-wg-psk-v1", sec>>]>>,
        err |-> ""]

\* NewConfig for the options of the join command
NewConfig(opts) ==
  LET sec == parseSecret(opts)
      derivedKeys == DeriveKeys(sec)
  IN IF derivedKeys.err # ""
     THEN [cfg |-> <<>>, err |-> "failed to derive keys"]
     ELSE [cfg |-> <<[Secret |-> sec, Keys |-> derivedKeys.keys[1]]>>,
           err |-> ""]

\* The secret characters of a flag value
Body(k) == IF k = 0 THEN <<>> ELSE <<Run(k)>>

Query == <<QuestionMark, Param>>

\* The secret URI for k characters, with or without query parameters
SecretURI(k, query) == <<URIPrefix, URIVersion, Slash>> \o Body(k) \o query

\* The values of --secret tried: the bare secret, the secret URI with and
\* without parameters, each also with blanks around it, the URI without
\* its version, and a bare secret with a question mark in it.
SecretFlags ==
  UNION {
    { Body(k),
      <<Blank>> \o Body(k) \o <<Blank>>,
      SecretURI(k, <<>>),
      SecretURI(k, Query),
      <<Blank>> \o SecretURI(k, Query) \o <<Blank>>,
      <<URIPrefix>> \o Body(k),
      Body(k) \o Query } : k \in 0..MaxSecretChars }

\* joinCmd up to NewConfig: an empty --secret and a failed NewConfig both
\* print the error and exit.
joinCmdConfig ==
  /\ startup.pc = "flags"
  /\ startup' =
       IF startup.opts = <<>>
       THEN [startup EXCEPT !.pc = "exited",
                            !.err = "--secret is required"]
       ELSE LET made == NewConfig(startup.opts)
            IN IF made.err # ""
               THEN [startup EXCEPT !.pc = "exited", !.err = made.err]
               ELSE [startup EXCEPT !.pc = "configured", !.cfg = made.cfg]
  /\ UNCHANGED <<meshVars, derived, router, run, driver, heap, detected, routes, applied, unit, life, disc, reg, check>>

\* joinCmd from NewDaemon on: the daemon runs with the Config.
joinCmdRun ==
  /\ startup.pc = "configured"
  /\ startup' = [startup EXCEPT !.pc = "running"]
  /\ UNCHANGED <<meshVars, derived, router, run, driver, heap, detected, routes, applied, unit, life, disc, reg, check>>

InitStartup ==
  /\ MeshIdle
  /\ check = NoCheck
  /\ reg = NoRegistry
  /\ disc = NoDisc
  /\ life = NoLife
  /\ unit = NoUnit
  /\ applied = NoApply
  /\ routes = NoRoutes
  /\ detected = NoDetection
  /\ heap = NoHeap
  /\ driver = NoDriver
  /\ run = NoRun
  /\ router = NoRouter
  /\ derived = NoDerivation
  /\ startup \in {[NoStartup EXCEPT !.pc = "flags", !.opts = f] :
                    f \in SecretFlags}

NextStartup ==
  \/ joinCmdConfig
  \/ joinCmdRun

SpecStartup == InitStartup /\ [][NextStartup]_vars

\* The runs of secret characters in a text
SecretChars(text) ==
  LET runs == {i \in 1..Len(text) : text[i].s = "base64url"}
  IN IF runs = {} THEN 0 ELSE text[CHOOSE i \in runs : TRUE].n

IsSecretURI(text) ==
  /\ Len(TrimSpace(text)) >= 3
  /\ SubSeq(TrimSpace(text), 1, 3) = <<URIPrefix, URIVersion, Slash>>

\* The flag value without its query parameters
WithoutQuery(text) ==
  LET idx == Index(text, QuestionMark)
  IN IF idx = 0 THEN text
     ELSE SubSeq(text, 1, idx - 1)
            \o SelectSeq(SubSeq(text, idx, Len(text)), LAMBDA x : x = Blank)

Refused == startup.pc = "exited" /\ startup.cfg = <<>> /\ startup.err # ""

\* C21: once the flag has been looked at, a secret of fewer than 16 bytes
\* has been refused; a secret URI whose characters decode to fewer than 16
\* bytes has been refused; and a secret URI has had the outcome that the
\* same URI without its query parameters has.
C21_ShortSecretRefused ==
  startup.pc \notin {"none", "flags"} =>
    /\ (~IsSecretURI(startup.opts)
          /\ ByteLen(TrimSpace(startup.opts)) < MinSecretLength) => Refused
    /\ (IsSecretURI(startup.opts)
          /\ DecodedLen(SecretChars(startup.opts)) < MinSecretLength)
         => Refused
    /\ IsSecretURI(startup.opts) =>
         LET bare == NewConfig(WithoutQuery(startup.opts))
         IN /\ startup.cfg = bare.cfg
            /\ (startup.err = "") = (bare.err = "")

\* A daemon runs on a secret URI whose 16 characters decode to 12 bytes.
C21_DaemonRunsOnTwelveBytes ==
  /\ startup.pc = "running"
  /\ startup.opts = SecretURI(MinSecretLength, <<>>)
  /\ DecodedLen(SecretChars(startup.opts)) = 12
  /\ startup.cfg # <<>>

\* What the code does guarantee: the secret that parseSecret extracts is
\* refused when its text is shorter than 16 bytes, and the query
\* parameters of a secret URI never reach the derivation.
SecretTextLengthChecked ==
  startup.pc \notin {"none", "flags"} =>
    /\ ByteLen(parseSecret(startup.opts)) < MinSecretLength => Refused
    /\ ByteLen(parseSecret(startup.opts)) >= MinSecretLength
         => startup.cfg = <<[Secret |-> parseSecret(startup.opts),
                              Keys |-> DeriveKeys(parseSecret(startup.opts)).keys[1]]>>
    /\ IsSecretURI(startup.opts) =>
         /\ parseSecret(startup.opts) = parseSecret(WithoutQuery(startup.opts))
         /\ QuestionMark \notin {parseSecret(startup.opts)[i] :
                                   i \in 1..Len(parseSecret(startup.opts))}

\* ------------------------------------------------------------------
\* Mesh IP derivation at full width: the first two bytes of the hash
\* make a 16-bit suffix, which is clamped and printed as two octets.
\* ------------------------------------------------------------------

ByteMax == 255
Bytes == 0..ByteMax

\* binary.BigEndian.Uint16
Uint16(b) == (b[1] * 256 + b[2]) % 65536

\* fmt.Sprintf("10.%d.%d.%d", meshSubnet[0], (suffix>>8)&0xFF, suffix&0xFF)
FormatMeshIP(meshSubnet, suffix) ==
  <<10, meshSubnet[1], (suffix \div 256) % 256, suffix % 256>>

\* The derivation without the two tests on the suffix.
MeshIPFromHashUnclamped(meshSubnet, hash) ==
  FormatMeshIP(meshSubnet, Uint16(hash))

\* DeriveMeshIP from the hash of wgPubKey + secret on.
MeshIPFromHash(meshSubnet, hash) ==
  LET suffix == Uint16(hash)
  IN FormatMeshIP(meshSubnet,
                  IF suffix = 0 THEN 1
                  ELSE IF suffix = 65535 THEN 65534
                  ELSE suffix)

\* The nonce derivation without the two tests on the suffix.
MeshIPFromNonceHashUnclamped(meshSubnet, hash) ==
  FormatMeshIP(meshSubnet, Uint16(hash))

\* DeriveMeshIPWithNonce from the hash of wgPubKey + secret + "|nonce=n"
\* on.
MeshIPFromNonceHash(meshSubnet, hash) ==
  LET suffix == Uint16(hash)
  IN FormatMeshIP(meshSubnet,
                  IF suffix = 0 THEN 1
                  ELSE IF suffix = 65535 THEN 65534
                  ELSE suffix)

\* The subnets tried.  The hash of the plain input ranges over all 65536
\* values, and so does the hash of the nonce input, taken here to be the
\* former with its two bytes swapped and inverted.
MeshSubnets == {<<0, 0>>, <<ByteMax, 7>>}
NonceHashOf(hash) == <<ByteMax - hash[2], ByteMax - hash[1]>>

\* NewDaemon: localNode.MeshIP = DeriveMeshIP(keys.MeshSubnet, pubkey,
\* secret).
deriveBase ==
  /\ derived.pc = "start"
  /\ derived' = [derived EXCEPT
                   !.pc = "derived",
                   !.MeshIP = MeshIPFromHash(derived.meshSubnet,
                                             derived.hash)]
  /\ UNCHANGED <<meshVars, startup, router, run, driver, heap, detected, routes, applied, unit, life, disc, reg, check>>

\* CheckAndResolveCollisions / ResolveCollision for a lost collision:
\* the address is derived again with the nonce.
deriveWithNonce ==
  /\ derived.pc = "derived"
  /\ derived' = [derived EXCEPT
                   !.pc = "rederived",
                   !.nonce = CollisionNonce,
                   !.MeshIP = MeshIPFromNonceHash(derived.meshSubnet,
                                                  derived.nonceHash)]
  /\ UNCHANGED <<meshVars, startup, router, run, driver, heap, detected, routes, applied, unit, life, disc, reg, check>>

InitDerive ==
  /\ MeshIdle
  /\ check = NoCheck
  /\ reg = NoRegistry
  /\ disc = NoDisc
  /\ life = NoLife
  /\ unit = NoUnit
  /\ applied = NoApply
  /\ routes = NoRoutes
  /\ detected = NoDetection
  /\ heap = NoHeap
  /\ driver = NoDriver
  /\ run = NoRun
  /\ router = NoRouter
  /\ startup = NoStartup
  /\ derived \in {[NoDerivation EXCEPT
                     !.pc = "start", !.meshSubnet = m, !.hash = <<b0, b1>>,
                     !.nonceHash = NonceHashOf(<<b0, b1>>)] :
                    m \in MeshSubnets, b0 \in Bytes, b1 \in Bytes}

NextDerive ==
  \/ deriveBase
  \/ deriveWithNonce

SpecDerive == InitDerive /\ [][NextDerive]_vars

\* The 16-bit host part of a mesh IP
HostPart(ip) == ip[3] * 256 + ip[4]

\* C22: every derived mesh IP, from the base derivation and from the
\* nonce derivation, is 10.<mesh_subnet>.hi.lo with octets hi and lo and
\* a host part from 1 to 65534: neither .0.0 nor .255.255.
C22_HostPartInRange ==
  derived.pc \in {"derived", "rederived"} =>
    /\ Len(derived.MeshIP) = 4
    /\ derived.MeshIP[1] = 10
    /\ derived.MeshIP[2] = derived.meshSubnet[1]
    /\ derived.MeshIP[3] \in Bytes /\ derived.MeshIP[4] \in Bytes
    /\ HostPart(derived.MeshIP) \in 1..65534
    /\ <<derived.MeshIP[3], derived.MeshIP[4]>>
         \notin {<<0, 0>>, <<ByteMax, ByteMax>>}

\* The hash of the plain input began with ff ff and the address ends in
\* .255.254, and the nonce input hashed to 00 00 and gave .0.1.
C22_Witness ==
  /\ derived.pc = "rederived"
  /\ derived.hash = <<ByteMax, ByteMax>>
  /\ derived.nonceHash = <<0, 0>>
  /\ derived.MeshIP = <<10, derived.meshSubnet[1], 0, 1>>

\* ------------------------------------------------------------------
\* The Dandelion router: epochs, relay selection, stem or fluff.
\* ------------------------------------------------------------------

MaxStemHops == 4
HopCountMax == 255

\* How many epochs and how many announces are followed.
MaxEpochs == 2
MaxAnnounces == 1

\* privacy.PeerInfo of node n
RelayInfo(n) == [WGPubKey |-> PubKey(n), MeshIP |-> MeshIPOf(n),
                 Endpoint |-> <<IPOf(n), DefaultWGPort>>]

\* The permutations of 1..n
ShuffleOrders(n) ==
  {p \in [1..n -> 1..n] : \A i, j \in 1..n : i # j => p[i] # p[j]}

\* The lists of peers that getPeers may hand to RotateEpoch: any peers in
\* any order, none twice.
PeerLists ==
  UNION {{[i \in 1..n |-> RelayInfo(o[i])] :
            o \in {f \in [1..n -> Nodes] :
                     \A i, j \in 1..n : i # j => f[i] # f[j]}} :
         n \in 0..Cardinality(Nodes)}

\* The lists that hold the same peers as a list, in every order
Reorderings(peers) ==
  {[i \in 1..Len(peers) |-> peers[p[i]]] : p \in ShuffleOrders(Len(peers))}

\* sort.Slice by WGPubKey, for peers with different keys
SortedByKey(peers) ==
  CHOOSE o \in Reorderings(peers) :
    \A i, j \in 1..Len(o) :
      i < j => Compare(KeyText(o[i].WGPubKey), KeyText(o[j].WGPubKey)) < 0

\* rng.Shuffle: the permutation the seeded generator gives for this many
\* elements
Shuffle(rng, epochID, peers) ==
  [i \in 1..Len(peers) |-> peers[rng[<<epochID, Len(peers)>>][i]]]

\* The selection without the sort.
selectRelayPeersUnsorted(rng, epochID, allPeers, count) ==
  IF Len(allPeers) = 0 THEN <<>>
  ELSE SubSeq(Shuffle(rng, epochID, allPeers), 1,
              IF count > Len(allPeers) THEN Len(allPeers) ELSE count)

selectRelayPeers(rng, epochID, allPeers, count) ==
  IF Len(allPeers) = 0 THEN <<>>
  ELSE SubSeq(Shuffle(rng, epochID, SortedByKey(allPeers)), 1,
              IF count > Len(allPeers) THEN Len(allPeers) ELSE count)

\* ShouldFluff; coin is rand.Float64() < FluffProbability
ShouldFluff(hopCount, coin) == hopCount >= MaxStemHops \/ coin

SetFluffHandler ==
  /\ ~router.onFluff
  /\ router' = [router EXCEPT !.onFluff = TRUE]
  /\ UNCHANGED <<meshVars, startup, derived, run, driver, heap, detected, routes, applied, unit, life, disc, reg, check>>

SetStemHandler ==
  /\ ~router.onStem
  /\ router' = [router EXCEPT !.onStem = TRUE]
  /\ UNCHANGED <<meshVars, startup, derived, run, driver, heap, detected, routes, applied, unit, life, disc, reg, check>>

RotateEpoch(allPeers) ==
  /\ router.epoch.ID < MaxEpochs
  /\ LET newEpochID == router.epoch.ID + 1
     IN router' = [router EXCEPT
                     !.epoch = [ID |-> newEpochID,
                                RelayPeers |->
                                  selectRelayPeers(router.rng, newEpochID,
                                                   allPeers, 2)],
                     !.allPeers = allPeers]
  /\ UNCHANGED <<meshVars, startup, derived, run, driver, heap, detected, routes, applied, unit, life, disc, reg, check>>

\* An announce reaches a router with the hop count its sender wrote into
\* the 8-bit field.
Arrive(hopCount) ==
  /\ router.msg = <<>>
  /\ router.arrivals < MaxAnnounces
  /\ router' = [router EXCEPT
                  !.msg = <<[HopCount |-> hopCount, stems |-> 0]>>,
                  !.arrivals = @ + 1,
                  !.last = NoHandling]
  /\ UNCHANGED <<meshVars, startup, derived, run, driver, heap, detected, routes, applied, unit, life, disc, reg, check>>

\* HandleAnnounce.  A stemmed announce is on its way to the relay, whose
\* router handles it in the same way.
HandleAnnounce(coin) ==
  /\ router.msg # <<>>
  /\ LET msg == router.msg[1]
         hopCount == (msg.HopCount + 1) % (HopCountMax + 1)
         epoch == router.epoch
         fluffed == [arrived |-> msg.HopCount, HopCount |-> hopCount,
                     did |-> "fluff", called |-> router.onFluff,
                     relays |-> epoch.RelayPeers, relay |-> <<>>]
     IN IF ShouldFluff(hopCount, coin)
        THEN router' = [router EXCEPT !.msg = <<>>, !.last = fluffed]
        ELSE IF Len(epoch.RelayPeers) > 0
        THEN LET relay ==
                   epoch.RelayPeers[(hopCount % Len(epoch.RelayPeers)) + 1]
             IN router' = [router EXCEPT
                  !.msg = IF router.onStem
                          THEN <<[HopCount |-> hopCount,
                                  stems |-> msg.stems + 1]>>
                          ELSE <<>>,
                  !.last = [arrived |-> msg.HopCount, HopCount |-> hopCount,
                            did |-> "stem", called |-> router.onStem,
                            relays |-> epoch.RelayPeers,
                            relay |-> <<relay>>]]
        ELSE router' = [router EXCEPT !.msg = <<>>, !.last = fluffed]
  /\ UNCHANGED <<meshVars, startup, derived, run, driver, heap, detected, routes, applied, unit, life, disc, reg, check>>

\* The generator that leaves every list as it is.
IdentityRng ==
  [k \in (1..MaxEpochs) \X (1..Cardinality(Nodes)) |->
     [i \in 1..k[2] |-> i]]

InitDandelion ==
  /\ MeshIdle
  /\ check = NoCheck
  /\ reg = NoRegistry
  /\ disc = NoDisc
  /\ life = NoLife
  /\ unit = NoUnit
  /\ applied = NoApply
  /\ routes = NoRoutes
  /\ detected = NoDetection
  /\ heap = NoHeap
  /\ driver = NoDriver
  /\ run = NoRun
  /\ startup = NoStartup
  /\ derived = NoDerivation
  /\ router = [NoRouter EXCEPT !.rng = IdentityRng]

NextDandelion ==
  \/ SetFluffHandler
  \/ SetStemHandler
  \/ \E allPeers \in {SortedByKey(l) : l \in PeerLists} :
       RotateEpoch(allPeers)
  \/ \E hopCount \in 0..HopCountMax : Arrive(hopCount)
  \/ \E coin \in BOOLEAN : HandleAnnounce(coin)

SpecDandelion == InitDandelion /\ [][NextDandelion]_vars

\* C23: HandleAnnounce raises the hop count by exactly one, fluffs when
\* the raised count has reached 4, never stems an announce that arrived
\* with a count of 3 or more, whatever the 8-bit field held, and no
\* announce is stemmed more than 4 times.
C23_HopBound ==
  /\ router.last.did # "none" =>
       /\ router.last.HopCount = router.last.arrived + 1
       /\ router.last.HopCount >= MaxStemHops => router.last.did = "fluff"
       /\ router.last.arrived >= MaxStemHops - 1
            => router.last.did # "stem"
  /\ router.msg # <<>> => router.msg[1].stems <= MaxStemHops

\* An announce that arrived with hop count 255 has been handed to the
\* stem handler with hop count 0.
C23_StemmedAfterWrap ==
  /\ router.last.arrived = HopCountMax
  /\ router.last.HopCount = 0
  /\ router.last.did = "stem" /\ router.last.called
  /\ router.msg = <<[HopCount |-> 0, stems |-> 1]>>

\* What holds for every value of the field: a raised count from 4 to 255
\* is fluffed, and no announce is stemmed more than 4 times in a row.
FluffedFromFourOn ==
  /\ router.last.did # "none" =>
       /\ router.last.HopCount = (router.last.arrived + 1) % (HopCountMax + 1)
       /\ router.last.HopCount >= MaxStemHops => router.last.did = "fluff"
       /\ router.last.arrived \in (MaxStemHops - 1)..(HopCountMax - 1)
            => router.last.did # "stem"
  /\ router.msg # <<>> => router.msg[1].stems <= MaxStemHops

\* C24: with fewer than two relay peers in the current epoch,
\* HandleAnnounce fluffs and does not call the stem handler.
C24_FluffWithFewRelays ==
  (router.last.did # "none" /\ Len(router.last.relays) < 2)
    => router.last.did = "fluff"

\* With one relay peer in the epoch an announce has been handed to the
\* stem handler, for that one relay.
C24_StemmedToOnlyRelay ==
  /\ Len(router.last.relays) = 1
  /\ router.last.did = "stem" /\ router.last.called
  /\ router.last.relay = router.last.relays
  /\ router.last.arrived = 0

\* What the code does: it fluffs at once when the epoch has no relay.
FluffWithoutRelays ==
  (router.last.did # "none" /\ Len(router.last.relays) = 0)
    => router.last.did = "fluff"

\* What the seeded generator may give: for every epoch and every number
\* of peers some permutation, the same whenever it is asked again.  The
\* generators tried swap two peers when they put the second of three
\* before the first.
Rngs ==
  {[k \in (1..MaxEpochs) \X (1..Cardinality(Nodes)) |->
      IF k[2] = 1 THEN <<1>>
      ELSE IF k[2] = 2
      THEN (IF three[k[1]][1] < three[k[1]][2] THEN <<1, 2>> ELSE <<2, 1>>)
      ELSE three[k[1]]] :
     three \in [1..MaxEpochs -> ShuffleOrders(3)]}

InitRelay ==
  /\ MeshIdle
  /\ check = NoCheck
  /\ reg = NoRegistry
  /\ disc = NoDisc
  /\ life = NoLife
  /\ unit = NoUnit
  /\ applied = NoApply
  /\ routes = NoRoutes
  /\ detected = NoDetection
  /\ heap = NoHeap
  /\ driver = NoDriver
  /\ run = NoRun
  /\ startup = NoStartup
  /\ derived = NoDerivation
  /\ router \in {[NoRouter EXCEPT !.rng = r, !.onFluff = TRUE] : r \in Rngs}

\* EpochRotationLoop hands RotateEpoch the peers in whatever order
\* getPeers lists them; the node's own announces (CreateAnnounce, hop
\* count 0) are handled in between.
NextRelay ==
  \/ SetStemHandler
  \/ \E allPeers \in PeerLists : RotateEpoch(allPeers)
  \/ Arrive(0)
  \/ \E coin \in BOOLEAN : HandleAnnounce(coin)

SpecRelay == InitRelay /\ [][NextRelay]_vars

Min(a, b) == IF a < b THEN a ELSE b

\* C25: the relays of an epoch are what selectRelayPeers gives for the
\* epoch's id and the supplied peers in any order, they are min(2, n)
\* different peers out of the n supplied, and they change only in a step
\* that raises the epoch id by one.
C25_RelaySelectionDeterministic ==
  /\ [](router.epoch.ID > 0 =>
          LET relays == router.epoch.RelayPeers
              n == Len(router.allPeers)
          IN /\ \A o \in Reorderings(router.allPeers) :
                  selectRelayPeers(router.rng, router.epoch.ID, o, 2) = relays
             /\ Len(relays) = Min(2, n)
             /\ \A i, j \in 1..Len(relays) : i # j => relays[i] # relays[j]
             /\ \A i \in 1..Len(relays) : Contains(router.allPeers, relays[i]))
  /\ [][router'.epoch # router.epoch
          => router'.epoch.ID = router.epoch.ID + 1]_vars

\* Three peers were supplied in an order that is not the sorted one, the
\* shuffle moved them, two relays were chosen, and an announce has been
\* stemmed in that epoch.
C25_Witness ==
  /\ router.epoch.ID = MaxEpochs
  /\ Len(router.allPeers) = 3
  /\ router.allPeers # SortedByKey(router.allPeers)
  /\ Len(router.epoch.RelayPeers) = 2
  /\ router.epoch.RelayPeers # SubSeq(SortedByKey(router.allPeers), 1, 2)
  /\ router.last.did = "stem" /\ router.last.called
  /\ router.last.relays = router.epoch.RelayPeers

\* ------------------------------------------------------------------
\* Shutdown: RunWithDHTDiscovery, the goroutines it starts, the signal,
\* the two cancellations and DHTDiscovery.Stop.
\* ------------------------------------------------------------------

\* How many ticks of the tickers are followed, all tickers together.
MaxTicks == 2

\* The context a ticker loop selects on
CtxDone(l) == IF l \in DaemonLoops THEN run.ctxDone ELSE run.dhtCtxDone

\* RunWithDHTDiscovery up to its select: the local node and the interface
\* are set up, DHTDiscovery.Start binds the exchange socket and starts
\* listenLoop, opens the DHT socket and starts announceLoop and queryLoop
\* (each begins with a first announce or query), then reconcileLoop and
\* statusLoop are started.
RunWithDHTDiscovery ==
  /\ run.main = "start"
  /\ run' = [run EXCEPT
               !.main = "select", !.running = TRUE,
               !.conn = "open", !.dhtConn = "open",
               !.task = [t \in Tasks |->
                           IF t \in DaemonLoops THEN "select"
                           ELSE IF t \in DHTLoops THEN "busy"
                           ELSE IF t = "listenLoop" THEN "check"
                           ELSE "none"]]
  /\ UNCHANGED <<meshVars, startup, derived, router, driver, heap, detected, routes, applied, unit, life, disc, reg, check>>

\* SIGINT or SIGTERM is delivered to sigCh.
Signal ==
  /\ run.main = "select"
  /\ ~run.signalled
  /\ run' = [run EXCEPT !.signalled = TRUE]
  /\ UNCHANGED <<meshVars, startup, derived, router, driver, heap, detected, routes, applied, unit, life, disc, reg, check>>

\* The select of RunWithDHTDiscovery returns and d.cancel() is called.
RunCancel ==
  /\ run.main = "select"
  /\ run.signalled \/ run.ctxDone
  /\ run' = [run EXCEPT !.main = "deferred", !.ctxDone = TRUE]
  /\ UNCHANGED <<meshVars, startup, derived, router, driver, heap, detected, routes, applied, unit, life, disc, reg, check>>

\* DHTDiscovery.Stop without the stop of the peer exchange.
DHTStopLeavingExchange ==
  /\ run.main = "deferred"
  /\ run' = [run EXCEPT !.main = "returned", !.running = FALSE,
                        !.dhtCtxDone = TRUE, !.dhtConn = "closed"]
  /\ UNCHANGED <<meshVars, startup, derived, router, driver, heap, detected, routes, applied, unit, life, disc, reg, check>>

\* The deferred DHTDiscovery.Stop up to exchange.Stop: running is reset,
\* the DHT context cancelled, the DHT server and its socket closed.
DHTStop ==
  /\ run.main = "deferred"
  /\ run' = [run EXCEPT !.main = "exchange.Stop", !.running = FALSE,
                        !.dhtCtxDone = TRUE, !.dhtConn = "closed"]
  /\ UNCHANGED <<meshVars, startup, derived, router, driver, heap, detected, routes, applied, unit, life, disc, reg, check>>

\* PeerExchange.Stop, first half: close(pe.stopCh).
ExchangeStopChannel ==
  /\ run.main = "exchange.Stop"
  /\ run' = [run EXCEPT !.main = "conn.Close", !.stopChClosed = TRUE]
  /\ UNCHANGED <<meshVars, startup, derived, router, driver, heap, detected, routes, applied, unit, life, disc, reg, check>>

\* PeerExchange.Stop, second half: pe.conn.Close(); Stop and
\* RunWithDHTDiscovery return.
ExchangeStopConn ==
  /\ run.main = "conn.Close"
  /\ run' = [run EXCEPT !.main = "returned", !.conn = "closed"]
  /\ UNCHANGED <<meshVars, startup, derived, router, driver, heap, detected, routes, applied, unit, life, disc, reg, check>>

\* The ticker of loop l puts a tick into its channel, which holds one.
TickerFires(l) ==
  /\ run.task[l] \in {"select", "busy"}
  /\ run.ticks < MaxTicks
  /\ ~run.ticker[l]
  /\ run' = [run EXCEPT !.ticker[l] = TRUE, !.ticks = @ + 1]
  /\ UNCHANGED <<meshVars, startup, derived, router, driver, heap, detected, routes, applied, unit, life, disc, reg, check>>

\* The select of loop l takes the tick: reconcile, printStatus, announce
\* or queryPeers runs.
LoopTick(l) ==
  /\ run.task[l] = "select"
  /\ run.ticker[l]
  /\ run' = [run EXCEPT !.ticker[l] = FALSE, !.task[l] = "busy"]
  /\ UNCHANGED <<meshVars, startup, derived, router, driver, heap, detected, routes, applied, unit, life, disc, reg, check>>

\* The work of loop l returns: reconcile and printStatus wait for
\* nothing; announceToInfohash and queryInfohash leave their own select
\* when the lookup ends, after 30 s or when the DHT context is cancelled.
LoopBodyDone(l) ==
  /\ run.task[l] = "busy"
  /\ run' = [run EXCEPT !.task[l] = "select"]
  /\ UNCHANGED <<meshVars, startup, derived, router, driver, heap, detected, routes, applied, unit, life, disc, reg, check>>

\* The select of loop l takes ctx.Done(): the loop returns.
LoopExit(l) ==
  /\ run.task[l] = "select"
  /\ CtxDone(l)
  /\ run' = [run EXCEPT !.task[l] = "exited"]
  /\ UNCHANGED <<meshVars, startup, derived, router, driver, heap, detected, routes, applied, unit, life, disc, reg, check>>

\* queryInfohash starts contactPeer for a reported address, which gets
\* into ExchangeWithPeer and waits for the REPLY or for ExchangeTimeout;
\* with the socket closed WriteToUDP fails and it returns at once.
ExchangeStarts ==
  /\ run.task["queryLoop"] = "busy"
  /\ run.task["exchange"] = "none"
  /\ run' = [run EXCEPT !.task["exchange"] =
                          IF run.conn = "open" THEN "waiting" ELSE "exited"]
  /\ UNCHANGED <<meshVars, startup, derived, router, driver, heap, detected, routes, applied, unit, life, disc, reg, check>>

\* The select of ExchangeWithPeer returns, on the REPLY or on time.After.
ExchangeReturns ==
  /\ run.task["exchange"] = "waiting"
  /\ run' = [run EXCEPT !.task["exchange"] = "exited"]
  /\ UNCHANGED <<meshVars, startup, derived, router, driver, heap, detected, routes, applied, unit, life, disc, reg, check>>

\* listenLoop at the top of its loop: it returns when stopCh is closed
\* and otherwise sets the 1 s deadline and reads.
listenLoopCheck ==
  /\ run.task["listenLoop"] = "check"
  /\ run' = [run EXCEPT !.task["listenLoop"] =
                          IF run.stopChClosed THEN "exited" ELSE "read"]
  /\ UNCHANGED <<meshVars, startup, derived, router, driver, heap, detected, routes, applied, unit, life, disc, reg, check>>

\* ReadFromUDP returns: a datagram (handed to a handleMessage goroutine),
\* the deadline, or the error of a closed socket; the loop starts over.
listenLoopRead ==
  /\ run.task["listenLoop"] = "read"
  /\ run' = [run EXCEPT !.task["listenLoop"] = "check"]
  /\ UNCHANGED <<meshVars, startup, derived, router, driver, heap, detected, routes, applied, unit, life, disc, reg, check>>

InitShutdown ==
  /\ MeshIdle
  /\ check = NoCheck
  /\ reg = NoRegistry
  /\ disc = NoDisc
  /\ life = NoLife
  /\ unit = NoUnit
  /\ applied = NoApply
  /\ routes = NoRoutes
  /\ detected = NoDetection
  /\ heap = NoHeap
  /\ driver = NoDriver
  /\ startup = NoStartup
  /\ derived = NoDerivation
  /\ router = NoRouter
  /\ run = [NoRun EXCEPT !.main = "start"]

NextShutdown ==
  \/ RunWithDHTDiscovery
  \/ Signal
  \/ RunCancel
  \/ DHTStop
  \/ ExchangeStopChannel
  \/ ExchangeStopConn
  \/ \E l \in TickerLoops : TickerFires(l)
  \/ \E l \in TickerLoops : LoopTick(l)
  \/ \E l \in TickerLoops : LoopBodyDone(l)
  \/ \E l \in TickerLoops : LoopExit(l)
  \/ ExchangeStarts
  \/ ExchangeReturns
  \/ listenLoopCheck
  \/ listenLoopRead

\* Every goroutine that can take a step takes one.  A select with several
\* ready cases picks one at random, so a loop whose context is cancelled
\* takes ctx.Done() at one of the selects it keeps coming back to.  No
\* signal need ever arrive, and no ticker need fire.
FairnessShutdown ==
  /\ WF_vars(RunWithDHTDiscovery)
  /\ WF_vars(RunCancel)
  /\ WF_vars(DHTStop)
  /\ WF_vars(ExchangeStopChannel)
  /\ WF_vars(ExchangeStopConn)
  /\ \A l \in TickerLoops :
       /\ WF_vars(LoopBodyDone(l))
       /\ SF_vars(LoopExit(l))
  /\ WF_vars(ExchangeReturns)
  /\ WF_vars(listenLoopCheck)
  /\ WF_vars(listenLoopRead)

SpecShutdown == InitShutdown /\ [][NextShutdown]_vars /\ FairnessShutdown

\* Every goroutine has returned and both sockets are closed.
AllStopped ==
  /\ run.main = "returned"
  /\ \A l \in TickerLoops : run.task[l] = "exited"
  /\ run.task["listenLoop"] = "exited"
  /\ run.task["exchange"] \in {"none", "exited"}
  /\ run.conn = "closed" /\ run.dhtConn = "closed"

\* C26: once the shutdown signal has arrived, the reconcile loop, the
\* status loop, the announce and the query loop, the peer-exchange
\* listener and an ExchangeWithPeer under way all return and both sockets
\* get closed, and it stays that way.
C26_GracefulShutdown ==
  /\ run.signalled ~> AllStopped
  /\ [][AllStopped => AllStopped']_vars

\* All is stopped after a signal, an exchange that was under way has
\* returned, and the tickers had fired before.
C26_Witness ==
  /\ AllStopped
  /\ run.signalled
  /\ run.task["exchange"] = "exited"
  /\ run.ticks = MaxTicks

\* ------------------------------------------------------------------
\* Reconcile with a WireGuard driver whose calls may fail.
\* ------------------------------------------------------------------

\* How many reconcile ticks are followed, and until when.
MaxReconciles == 3
DriverHorizon == 70

\* The time between two looks at the daemon: more than PeerDeadTimeout,
\* twice that more than PeerRemoveTimeout.
DriverStep == PeerDeadTimeout + 5

\* The key of a member that announces a key of three characters.
ShortKey == Cardinality(Nodes) + 2

\* len(key): a WireGuard key in base64 has 44 characters.
KeyBytes(k) == IF k = ShortKey THEN 3 ELSE 44

\* The log lines of reconcile print key[:8].
LogPrefixBytes == 8

\* What a member announces of itself under key k
MemberInfo(k) ==
  [WGPubKey |-> k, MeshIP |-> MeshIPOf(k),
   Endpoint |-> <<IPOf(k), DefaultWGPort>>, RoutableNetworks |-> <<>>]

\* The orders in which a loop may range over a set of keys
KeyOrders(ks) ==
  {o \in [1..Cardinality(ks) -> ks] :
     \A i, j \in 1..Cardinality(ks) : i # j => o[i] # o[j]}

\* A failed call is logged with key[:8], which panics for a shorter key.
\* The calls made while ranging over `order`: all of them, or those up to
\* the first failed call for a key that cannot be sliced.
Panics(order, failing) ==
  {i \in 1..Len(order) :
     order[i] \in failing /\ KeyBytes(order[i]) < LogPrefixBytes}

Called(order, failing) ==
  LET ps == Panics(order, failing)
  IN IF ps = {} THEN {order[i] : i \in 1..Len(order)}
     ELSE {order[i] : i \in 1..(CHOOSE p \in ps : \A q \in ps : p <= q)}

\* reconcile at node 1 when the calls for the keys in failingSet and in
\* failingRemove return an error: SetPeer for every active peer but the
\* node itself, in the order of the GetActive slice, then CleanupStale and
\* RemovePeer for every evicted key.
reconcileDriver(failingSet, failingRemove, order, removeOrder) ==
  LET t == Clock(1)
      peers == GetActive(store[1], t)
      set == Called(order, failingSet)
      setPanics == Panics(order, failingSet) # {}
      remove == Called(removeOrder, failingRemove)
      removePanics == Panics(removeOrder, failingRemove) # {}
  IN /\ ~driver.crashed
     /\ driver.ticks < MaxReconciles
     /\ order \in KeyOrders(peers \ {PubKey(1)})
     /\ removeOrder \in KeyOrders(StaleKeys(store[1], t))
     /\ failingSet \subseteq peers \ {PubKey(1)}
     /\ failingRemove \subseteq StaleKeys(store[1], t)
     /\ IF peers = {}
        THEN /\ failingSet = {} /\ failingRemove = {}
             /\ driver' = [driver EXCEPT
                             !.ticks = @ + 1,
                             !.last = [NoReconcile EXCEPT !.ran = "early"]]
             /\ UNCHANGED <<store, wgPeers>>
        ELSE IF setPanics
        THEN /\ failingRemove = {}
             /\ driver' = [crashed |-> TRUE, ticks |-> driver.ticks + 1,
                           last |-> [ran |-> "panic", active |-> peers,
                                     failed |-> failingSet \cap set,
                                     set |-> set, cleanup |-> FALSE,
                                     remove |-> {}]]
             /\ wgPeers' = [wgPeers EXCEPT ![1] = @ \cup (set \ failingSet)]
             /\ UNCHANGED store
        ELSE /\ driver' = [crashed |-> removePanics,
                           ticks |-> driver.ticks + 1,
                           last |-> [ran |-> IF removePanics THEN "panic"
                                              ELSE "full",
                                     active |-> peers,
                                     failed |-> failingSet
                                                  \cup (failingRemove
                                                          \cap remove),
                                     set |-> set, cleanup |-> TRUE,
                                     remove |-> remove]]
             /\ wgPeers' = [wgPeers EXCEPT ![1] =
                              (@ \cup (set \ failingSet))
                                \ (remove \ failingRemove)]
             /\ store' = [store EXCEPT ![1] = CleanupStale(@, t)]

\* reconcileLoop at node 1: the ticker fires.
ReconcileDriver ==
  /\ LET others == GetActive(store[1], Clock(1)) \ {PubKey(1)}
         stale == StaleKeys(store[1], Clock(1))
     IN \E failingSet \in SUBSET others, failingRemove \in SUBSET stale,
           order \in KeyOrders(others), removeOrder \in KeyOrders(stale) :
          reconcileDriver(failingSet, failingRemove, order, removeOrder)
  /\ UNCHANGED <<now, secret, skew, net, pending, exch, contacted, sends,
                 lastTick, log, localNode, digest, dht, calls, lastHello,
                 startup, derived, router, run, heap, detected, routes, applied, unit, life, disc, reg, check>>

InitDriver ==
  /\ MeshIdle
  /\ check = NoCheck
  /\ reg = NoRegistry
  /\ disc = NoDisc
  /\ life = NoLife
  /\ unit = NoUnit
  /\ applied = NoApply
  /\ routes = NoRoutes
  /\ detected = NoDetection
  /\ heap = NoHeap
  /\ startup = NoStartup
  /\ derived = NoDerivation
  /\ router = NoRouter
  /\ run = NoRun
  /\ driver = NoDriver

\* Members 2 and 3 and the member with the short key say HELLO to node 1
\* now and then, time passes, node 1 reconciles.  A daemon that has
\* panicked does nothing any more.
NextDriver ==
  \/ TickTo(DriverStep, DriverHorizon)
  \/ \E k \in {PubKey(2), PubKey(3), ShortKey} :
       ~driver.crashed /\ UpdateCall(1, MemberInfo(k), DHTMethod)
  \/ ReconcileDriver

SpecDriver == InitDriver /\ [][NextDriver]_vars

\* C27: a tick of reconcile in which a driver call fails still calls
\* SetPeer for every other active peer, still runs CleanupStale, leaves
\* the store as a tick without failures leaves it, and leaves the loop
\* alive for the next tick.
C27_DriverErrorIsolated ==
  [][(driver'.ticks # driver.ticks /\ driver'.last.failed # {})
       => /\ driver'.last.set = GetActive(store[1], Clock(1)) \ {PubKey(1)}
          /\ driver'.last.cleanup
          /\ store' = [store EXCEPT ![1] = CleanupStale(@, Clock(1))]
          /\ ~driver'.crashed]_vars

\* SetPeer failed for the short key, the daemon panicked in the log line,
\* an active peer was left without its SetPeer call and CleanupStale did
\* not run.
C27_PanicOnShortKey ==
  /\ driver.crashed
  /\ driver.last.ran = "panic"
  /\ driver.last.failed = {ShortKey}
  /\ driver.last.active \ (driver.last.set \cup {PubKey(1)}) # {}
  /\ ~driver.last.cleanup

\* What holds: when every failed call is for a key of 8 characters or
\* more, the tick goes on as the claim says.
DriverErrorIsolatedForLongKeys ==
  [][(/\ driver'.ticks # driver.ticks
      /\ driver'.last.failed # {}
      /\ \A k \in driver'.last.failed : KeyBytes(k) >= LogPrefixBytes)
       => /\ driver'.last.set = GetActive(store[1], Clock(1)) \ {PubKey(1)}
          /\ driver'.last.cleanup
          /\ store' = [store EXCEPT ![1] = CleanupStale(@, Clock(1))]
          /\ ~driver'.crashed]_vars

\* ---------------------------------------------------------------------
\* The PeerStore as pointers: which PeerInfo structs the map points to,
\* which of them callers hold, and what a caller sees through them.
\* ---------------------------------------------------------------------

\* Calls of Update and of the reading methods that are followed.
MaxUpdates == 3
MaxReads == 1

\* The time up to which the store is followed.
AliasHorizon == 30

\* The keys announced, and the announcements about them.
AliasKeys == {2, 3}

AliasInfos ==
  UNION {{[WGPubKey |-> k, MeshIP |-> ip, Endpoint |-> ep,
            RoutableNetworks |-> <<>>] :
              ip \in {0, MeshIPOf(2)},
              ep \in {EmptyEndpoint, <<IPOf(k), DefaultWGPort>>}} :
           k \in AliasKeys}

\* A nil slice, and the slice over the first len cells of an array.
NilSlice == [array |-> 0, len |-> 0]

\* The elements a slice shows.
Elements(h, slice) ==
  IF slice.array = 0 THEN <<>> ELSE SubSeq(h.arrays[slice.array], 1, slice.len)

\* What a reader of the struct at address p sees.
Value(h, p) ==
  [WGPubKey |-> h.objs[p].WGPubKey, MeshIP |-> h.objs[p].MeshIP,
   Endpoint |-> h.objs[p].Endpoint,
   RoutableNetworks |-> h.objs[p].RoutableNetworks,
   LastSeen |-> h.objs[p].LastSeen,
   DiscoveredVia |-> Elements(h, h.objs[p].DiscoveredVia)]

\* The store as the values its pointers lead to.
StoreValue(h) == [k \in DOMAIN h.peers |-> Value(h, h.peers[k])]

\* The addresses the map holds.
Stored(h) == {h.peers[k] : k \in DOMAIN h.peers}

\* The struct a caller builds before it calls Update: no LastSeen, no
\* DiscoveredVia.
NewPeerInfo(info) ==
  [WGPubKey |-> info.WGPubKey, MeshIP |-> info.MeshIP,
   Endpoint |-> info.Endpoint, RoutableNetworks |-> info.RoutableNetworks,
   LastSeen |-> 0, DiscoveredVia |-> NilSlice]

\* A cell of memory that holds no struct, and one that holds no array.
NoObject == [WGPubKey |-> 0]
NoArray == <<>>

\* The lowest free address of a memory.
Alloc(memory, free) ==
  IF \E i \in 1..Len(memory) : memory[i] = free
  THEN CHOOSE i \in 1..Len(memory) :
         memory[i] = free /\ \A j \in 1..(i - 1) : memory[j] # free
  ELSE Len(memory) + 1

\* The memory with x at address p.
Store(memory, p, x) ==
  IF p = Len(memory) + 1 THEN Append(memory, x) ELSE [memory EXCEPT ![p] = x]

\* The memory with every cell outside `live` freed.
Sweep(memory, live, free) ==
  LET swept == [i \in 1..Len(memory) |-> IF i \in live THEN memory[i] ELSE free]
      last == IF \E i \in live : i <= Len(memory)
              THEN CHOOSE i \in live : i <= Len(memory) /\ \A j \in live : j <= i
              ELSE 0
  IN SubSeq(swept, 1, last)

\* The garbage collector: the structs no pointer leads to, and the arrays
\* no slice of a remaining struct leads to, are freed.
Collect(h) ==
  LET live == {h.peers[k] : k \in DOMAIN h.peers}
                \cup {ref.addr : ref \in UNION {h.held[r] : r \in Readers}}
                \cup (IF h.passed = 0 THEN {} ELSE {h.passed})
                \cup (IF h.mu = NoUpdate THEN {} ELSE {h.mu.info})
      liveArrays == {h.objs[p].DiscoveredVia.array : p \in live} \ {0}
  IN [h EXCEPT !.objs = Sweep(h.objs, live, NoObject),
               !.arrays = Sweep(h.arrays, liveArrays, NoArray)]

\* append(slice, x): in place when the array has a free cell, else into a
\* new array of twice the capacity.  The result is <<arrays, slice>>.
AppendSlice(arrays, slice, x) ==
  IF slice.array # 0 /\ slice.len < Len(arrays[slice.array])
  THEN <<[arrays EXCEPT ![slice.array][slice.len + 1] = x],
         [array |-> slice.array, len |-> slice.len + 1]>>
  ELSE LET old == IF slice.array = 0 THEN <<>>
                  ELSE SubSeq(arrays[slice.array], 1, slice.len)
           cap == IF slice.len = 0 THEN 1 ELSE 2 * slice.len
           fresh == [i \in 1..cap |->
                       IF i <= slice.len THEN old[i]
                       ELSE IF i = slice.len + 1 THEN x ELSE ""]
           a == Alloc(arrays, NoArray)
       IN <<Store(arrays, a, fresh), [array |-> a, len |-> slice.len + 1]>>

\* PeerStore.Update up to its first return: the caller's struct is at a
\* new address; the write lock is taken; for a new key the struct itself
\* is stamped and put into the map, and the lock is released; for a known
\* key the merge begins.
UpdateLock(info, discoveryMethod) ==
  /\ heap.mu = NoUpdate
  /\ heap.updates < MaxUpdates
  /\ LET p == Alloc(heap.objs, NoObject)
         objs == Store(heap.objs, p, NewPeerInfo(info))
     IN IF ~Has(heap.peers, info.WGPubKey)
        THEN LET a == AppendSlice(heap.arrays, NilSlice, discoveryMethod)
             IN heap' = Collect([heap EXCEPT
                  !.objs = [objs EXCEPT ![p].LastSeen = Clock(1),
                                        ![p].DiscoveredVia = a[2]],
                  !.arrays = a[1],
                  !.peers = Put(heap.peers, info.WGPubKey, p),
                  !.passed = p,
                  !.updates = @ + 1])
        ELSE heap' = Collect([heap EXCEPT
                  !.objs = objs,
                  !.passed = p,
                  !.updates = @ + 1,
                  !.mu = [pc |-> "Endpoint", info |-> p,
                          existing |-> heap.peers[info.WGPubKey],
                          discoveryMethod |-> discoveryMethod,
                          before |-> StoreValue(heap)[info.WGPubKey],
                          after |-> Update(StoreValue(heap), info,
                                           discoveryMethod,
                                           Clock(1))[info.WGPubKey]]])
  /\ UNCHANGED <<meshVars, startup, derived, router, run, driver, detected, routes, applied, unit, life, disc, reg, check>>

\* The next assignment of the merge, under the write lock.
UpdateMerge ==
  /\ heap.mu.pc \in {"Endpoint", "RoutableNetworks", "MeshIP", "LastSeen"}
  /\ LET info == heap.objs[heap.mu.info]
         e == heap.mu.existing
     IN heap' =
          CASE heap.mu.pc = "Endpoint" ->
                 [heap EXCEPT
                    !.objs[e].Endpoint =
                       IF info.Endpoint # EmptyEndpoint THEN info.Endpoint ELSE @,
                    !.mu.pc = "RoutableNetworks"]
            [] heap.mu.pc = "RoutableNetworks" ->
                 [heap EXCEPT
                    !.objs[e].RoutableNetworks =
                       IF Len(info.RoutableNetworks) > 0
                       THEN info.RoutableNetworks ELSE @,
                    !.mu.pc = "MeshIP"]
            [] heap.mu.pc = "MeshIP" ->
                 [heap EXCEPT
                    !.objs[e].MeshIP = IF info.MeshIP # 0 THEN info.MeshIP ELSE @,
                    !.mu.pc = "LastSeen"]
            [] heap.mu.pc = "LastSeen" ->
                 [heap EXCEPT !.objs[e].LastSeen = Clock(1),
                              !.mu.pc = "DiscoveredVia"]
  /\ UNCHANGED <<meshVars, startup, derived, router, run, driver, detected, routes, applied, unit, life, disc, reg, check>>

\* The end of Update: the discovery method is appended when it is new,
\* and the deferred Unlock runs.
UpdateUnlock ==
  /\ heap.mu.pc = "DiscoveredVia"
  /\ LET e == heap.mu.existing
         slice == heap.objs[e].DiscoveredVia
         a == IF Contains(Elements(heap, slice), heap.mu.discoveryMethod)
              THEN <<heap.arrays, slice>>
              ELSE AppendSlice(heap.arrays, slice, heap.mu.discoveryMethod)
     IN heap' = Collect([heap EXCEPT !.arrays = a[1],
                                     !.objs[e].DiscoveredVia = a[2],
                                     !.mu = NoUpdate])
  /\ UNCHANGED <<meshVars, startup, derived, router, run, driver, detected, routes, applied, unit, life, disc, reg, check>>

\* The pointer a reading method returned, with what it showed then.
Ref(h, p, from) == [addr |-> p, from |-> from, value |-> Value(h, p)]

\* peerCopy := *peer for each key of ks in turn: the structs are copied
\* to new addresses, slice headers included.  The result is
\* <<objs, addresses>>.
RECURSIVE CopyAll(_, _, _)
CopyAll(h, objs, ks) ==
  IF ks = {} THEN <<objs, {}>>
  ELSE LET k == CHOOSE k \in ks : \A j \in ks : k <= j
           p == Alloc(objs, NoObject)
           rest == CopyAll(h, Store(objs, p, h.objs[h.peers[k]]), ks \ {k})
       IN <<rest[1], rest[2] \cup {p}>>

\* A reading method that returns copies of the entries ks, called by
\* reader r under the read lock.
ReturnCopies(r, ks, from) ==
  /\ heap.mu = NoUpdate
  /\ heap.reads < MaxReads
  /\ LET c == CopyAll(heap, heap.objs, ks)
         h == [heap EXCEPT !.objs = c[1]]
     IN heap' = Collect([h EXCEPT !.held[r] = {Ref(h, p, from) : p \in c[2]},
                                  !.reads = @ + 1])
  /\ UNCHANGED <<meshVars, startup, derived, router, run, driver, detected, routes, applied, unit, life, disc, reg, check>>

\* PeerStore.Get.
Get(r, pubKey) ==
  ReturnCopies(r, {pubKey} \cap DOMAIN heap.peers, "Get")

\* PeerStore.GetAll.
GetAll(r) == ReturnCopies(r, DOMAIN heap.peers, "GetAll")

\* PeerStore.GetActive.
GetActiveCopies(r) ==
  ReturnCopies(r, GetActive(StoreValue(heap), Clock(1)), "GetActive")

\* PeerStore.DetectCollisions called by reader r, the map walked in the
\* order `order`: Peer1 and Peer2 of each CollisionInfo are the pointers
\* found in the map.
DetectCollisionsPointers(r, order) ==
  /\ heap.mu = NoUpdate
  /\ heap.reads < MaxReads
  /\ LET collisions == DetectCollisions(StoreValue(heap), order)
         pointers == UNION {{heap.peers[c.Peer1.WGPubKey],
                             heap.peers[c.Peer2.WGPubKey]} : c \in collisions}
     IN heap' = Collect([heap EXCEPT
                   !.held[r] = {Ref(heap, p, "DetectCollisions") : p \in pointers},
                   !.reads = @ + 1])
  /\ UNCHANGED <<meshVars, startup, derived, router, run, driver, detected, routes, applied, unit, life, disc, reg, check>>

\* Reader r reads the struct behind a pointer it was given, with no lock.
CallerReads(r) ==
  /\ \E ref \in heap.held[r] :
       LET v == Value(heap, ref.addr)
       IN heap' = [heap EXCEPT !.observed =
                     [from |-> ref.from,
                      torn |-> /\ heap.mu # NoUpdate
                               /\ heap.mu.existing = ref.addr
                               /\ v \notin {heap.mu.before, heap.mu.after}]]
  /\ UNCHANGED <<meshVars, startup, derived, router, run, driver, detected, routes, applied, unit, life, disc, reg, check>>

InitAlias ==
  /\ MeshIdle
  /\ check = NoCheck
  /\ reg = NoRegistry
  /\ disc = NoDisc
  /\ life = NoLife
  /\ unit = NoUnit
  /\ applied = NoApply
  /\ routes = NoRoutes
  /\ detected = NoDetection
  /\ heap = NoHeap
  /\ startup = NoStartup
  /\ derived = NoDerivation
  /\ router = NoRouter
  /\ run = NoRun
  /\ driver = NoDriver

NextAlias ==
  \/ heap.mu = NoUpdate /\ TickTo(AliasHorizon, AliasHorizon)
  \/ \E info \in AliasInfos, m \in {DHTMethod, LANMethod} : UpdateLock(info, m)
  \/ UpdateMerge
  \/ UpdateUnlock
  \/ \E r \in Readers, k \in AliasKeys : Get(r, k)
  \/ \E r \in Readers : GetAll(r)
  \/ \E r \in Readers : GetActiveCopies(r)
  \/ \E r \in Readers :
       \E order \in WalkOrders(heap.peers) : DetectCollisionsPointers(r, order)
  \/ \E r \in Readers : CallerReads(r)

SpecAlias == InitAlias /\ [][NextAlias]_vars

\* The pointers of a reader's result.
HeldBy(from) == {ref \in UNION {heap.held[r] : r \in Readers} : ref.from \in from}

\* The methods that copy.
CopyingMethods == {"Get", "GetAll", "GetActive"}

\* C28: no PeerInfo of the store is aliased outside it: every record
\* returned by Get, GetAll, GetActive and DetectCollisions is at an
\* address of its own and still shows what it showed when it was
\* returned, the map does not point to the struct a caller passed to
\* Update, and no caller sees a record between two assignments of a merge.
C28_NoAliasing ==
  /\ \A ref \in HeldBy(CopyingMethods \cup {"DetectCollisions"}) :
       /\ ref.addr \notin Stored(heap)
       /\ Value(heap, ref.addr) = ref.value
  /\ heap.passed \notin Stored(heap)
  /\ ~heap.observed.torn

\* A caller of DetectCollisions reads a record in the middle of a merge.
C28_CollisionRecordReadMidMerge ==
  /\ heap.observed.from = "DetectCollisions"
  /\ heap.observed.torn

\* What Get, GetAll and GetActive return are copies that no later Update
\* changes, and a read through them never falls into a merge.
CopiesAreStable ==
  /\ \A ref \in HeldBy(CopyingMethods) :
       /\ ref.addr \notin Stored(heap)
       /\ Value(heap, ref.addr) = ref.value
  /\ heap.observed.from \in CopyingMethods =>
       ~heap.observed.torn

\* The assignments of a merge add up to Update.
MergeIsUpdate ==
  [][heap.mu # NoUpdate /\ heap'.mu = NoUpdate =>
       Value(heap', heap.mu.existing) = heap.mu.after]_vars

\* ---------------------------------------------------------------------
\* DetectCollisions over stores of several peers.
\* ---------------------------------------------------------------------

\* The keys announced to node 1 and the addresses they announce.
DetectKeys == {2, 3, 4, 5}

DetectInfos ==
  {[WGPubKey |-> k, MeshIP |-> ip, Endpoint |-> EmptyEndpoint,
    RoutableNetworks |-> <<>>] :
     k \in DetectKeys, ip \in {0, MeshIPOf(2), MeshIPOf(3)}}

\* A call of DetectCollisions at node 1, the map walked in some order.
DetectCollisionsCall ==
  /\ \E order \in WalkOrders(store[1]) :
       detected' = [called |-> TRUE, before |-> store[1],
                    result |-> DetectCollisions(store[1], order)]
  /\ UNCHANGED <<meshVars, startup, derived, router, run, driver, heap, routes, applied, unit, life, disc, reg, check>>

InitDetect ==
  /\ MeshIdle
  /\ check = NoCheck
  /\ reg = NoRegistry
  /\ disc = NoDisc
  /\ life = NoLife
  /\ unit = NoUnit
  /\ applied = NoApply
  /\ routes = NoRoutes
  /\ DaemonIdle

NextDetect ==
  \/ \E info \in DetectInfos : UpdateCall(1, info, DHTMethod)
  \/ DetectCollisionsCall

SpecDetect == InitDetect /\ [][NextDetect]_vars

\* The keys of ps that share a non-empty address with another key.
SharingAddress(ps) ==
  {k \in DOMAIN ps :
     /\ ps[k].MeshIP # 0
     /\ \E j \in DOMAIN ps \ {k} : ps[j].MeshIP = ps[k].MeshIP}

\* C29: DetectCollisions is sound and complete: every returned triple
\* names two entries of the store with different keys and the same
\* non-empty address, the result is empty exactly when the non-empty
\* addresses of the store are pairwise distinct, every peer that shares
\* an address with another peer is in some returned pair, and the call
\* leaves the store as it was.
C29_DetectCollisionsSoundAndComplete ==
  /\ [](detected.called =>
          LET ps == detected.before
              cs == detected.result
          IN /\ \A c \in cs :
                  /\ Has(ps, c.Peer1.WGPubKey) /\ ps[c.Peer1.WGPubKey] = c.Peer1
                  /\ Has(ps, c.Peer2.WGPubKey) /\ ps[c.Peer2.WGPubKey] = c.Peer2
                  /\ c.Peer1.WGPubKey # c.Peer2.WGPubKey
                  /\ c.MeshIP # 0
                  /\ c.Peer1.MeshIP = c.MeshIP
                  /\ c.Peer2.MeshIP = c.MeshIP
             /\ (cs = {}) <=> (SharingAddress(ps) = {})
             /\ \A k \in SharingAddress(ps) :
                  \E c \in cs : k \in {c.Peer1.WGPubKey, c.Peer2.WGPubKey})
  /\ [][detected' # detected => store' = store /\ detected'.before = store'[1]]_vars

\* DetectCollisions ran on a store where three peers share one address
\* and a fourth has none, and reported two pairs.
C29_Witness ==
  /\ detected.called
  /\ Cardinality(SharingAddress(detected.before)) = 3
  /\ \E k \in DOMAIN detected.before : detected.before[k].MeshIP = 0
  /\ Cardinality(detected.result) = 2

\* ---------------------------------------------------------------------
\* CalculateRouteDiff over lists of routes.
\* ---------------------------------------------------------------------

\* The longest list of routes compared.
MaxRoutes == 3

\* Networks, and gateways; NoGateway is the empty string of a direct
\* route.
RouteNetworks == {1, 2}
NoGateway == 0
RouteGateways == {NoGateway, 1, 2}

RouteEntries == [Network : RouteNetworks, Gateway : RouteGateways]

RouteLists == UNION {[1..n -> RouteEntries] : n \in 0..MaxRoutes}

\* Nothing appended.
NoRoute == [Network |-> 0, Gateway |-> NoGateway]

\* makeRouteKey: network and gateway joined by "|"; neither contains the
\* bar, so the key stands for the pair.
makeRouteKey(network, gateway) == <<network, gateway>>

\* The map built by `m[key(r)] = r` for each r of the list in turn: the
\* keys it has, and for each key the last route written under it.
KeysOf(list, key(_)) == {key(list[i]) : i \in 1..Len(list)}

LastUnder(list, key(_), k) ==
  list[CHOOSE i \in 1..Len(list) :
         key(list[i]) = k /\ \A j \in (i + 1)..Len(list) : key(list[j]) # k]

\* How often a loop over the keys s that appends f(k) appends r.
RECURSIVE Appended(_, _, _)
Appended(s, f(_), r) ==
  IF s = {} THEN 0
  ELSE LET x == CHOOSE x \in s : TRUE
       IN (IF f(x) = r THEN 1 ELSE 0) + Appended(s \ {x}, f, r)

\* CalculateRouteDiff: toAdd and toRemove as the number of times each
\* route is appended, which does not depend on the order the maps are
\* walked in.
CalculateRouteDiff(current, desired) ==
  LET exact(r) == makeRouteKey(r.Network, r.Gateway)
      network(r) == r.Network
      currentMap == KeysOf(current, exact)
      desiredMap == KeysOf(desired, exact)
      currentByNetwork == KeysOf(current, network)
      desiredByNetwork == KeysOf(desired, network)
      missing == {k \in desiredMap : k \notin currentMap}
      route(k) == LastUnder(desired, exact, k)
      replaced(k) ==
        IF route(k).Network \in currentByNetwork
        THEN LET currentRoute == LastUnder(current, network, route(k).Network)
             IN IF currentRoute.Gateway # route(k).Gateway
                   /\ currentRoute.Gateway # NoGateway
                THEN currentRoute ELSE NoRoute
        ELSE NoRoute
      gone == {k \in currentMap :
                 /\ k \notin desiredMap
                 /\ LastUnder(current, exact, k).Network \notin desiredByNetwork
                 /\ LastUnder(current, exact, k).Gateway # NoGateway}
      removedLater(k) == LastUnder(current, exact, k)
  IN [toAdd |-> [r \in RouteEntries |-> Appended(missing, route, r)],
      toRemove |-> [r \in RouteEntries |->
                      Appended(missing, replaced, r)
                        + Appended(gone, removedLater, r)]]

\* syncRoutesForNode from the call of CalculateRouteDiff on.
CalculateRouteDiffCall ==
  /\ ~routes.called
  /\ routes' = [current |-> routes.current, desired |-> routes.desired,
                called |-> TRUE,
                diff |-> CalculateRouteDiff(routes.current, routes.desired)]
  /\ UNCHANGED <<meshVars, startup, derived, router, run, driver, heap, detected, applied, unit, life, disc, reg, check>>

InitRoutes ==
  /\ MeshIdle
  /\ check = NoCheck
  /\ reg = NoRegistry
  /\ disc = NoDisc
  /\ life = NoLife
  /\ unit = NoUnit
  /\ applied = NoApply
  /\ startup = NoStartup
  /\ derived = NoDerivation
  /\ router = NoRouter
  /\ run = NoRun
  /\ driver = NoDriver
  /\ heap = NoHeap
  /\ detected = NoDetection
  /\ routes \in {[current |-> c, desired |-> d, called |-> FALSE] :
                   c \in RouteLists, d \in RouteLists}

NextRoutes == CalculateRouteDiffCall

SpecRoutes == InitRoutes /\ [][NextRoutes]_vars

\* The routes of a list.
RoutesOf(list) == {list[i] : i \in 1..Len(list)}

\* The routes that are in both the current and the desired state.
InBoth == RoutesOf(routes.current) \cap RoutesOf(routes.desired)

\* C30: the route diff touches only what changed: a route whose network
\* and gateway are in both the current and the desired list is neither
\* in toAdd nor in toRemove, and for the same current and desired state
\* both are empty.
C30_OnlyChangedRoutesTouched ==
  routes.called =>
    /\ \A r \in InBoth :
         routes.diff.toAdd[r] = 0 /\ routes.diff.toRemove[r] = 0
    /\ RoutesOf(routes.current) = RoutesOf(routes.desired) =>
         \A r \in RouteEntries :
           routes.diff.toAdd[r] = 0 /\ routes.diff.toRemove[r] = 0

\* A route that is wanted and present is removed and not added again.
C30_DesiredRouteRemoved ==
  /\ routes.called
  /\ \E r \in InBoth :
       routes.diff.toRemove[r] > 0 /\ routes.diff.toAdd[r] = 0

\* No network is wanted through two gateways.
NetworksUnique(list) ==
  \A i, j \in 1..Len(list) :
    list[i].Network = list[j].Network => list[i].Gateway = list[j].Gateway

\* When no network is wanted through two gateways, a route in both
\* states is left alone.
TouchesOnlyChangedWhenNetworksUnique ==
  routes.called /\ NetworksUnique(routes.desired) =>
    \A r \in InBoth :
      routes.diff.toAdd[r] = 0 /\ routes.diff.toRemove[r] = 0

\* For the same current and desired state nothing is added or removed.
IdenticalStatesNeedNothing ==
  routes.called /\ RoutesOf(routes.current) = RoutesOf(routes.desired) =>
    \A r \in RouteEntries :
      routes.diff.toAdd[r] = 0 /\ routes.diff.toRemove[r] = 0

\* ---------------------------------------------------------------------
\* ApplyRouteDiff on the routes of the interface, and the next deploy.
\* ---------------------------------------------------------------------

\* `ip route del`: the route leaves the table if it is there; the command
\* line ends in `|| true`.
ipRouteDel(table, r) == table \ {r}

\* `ip route add ... || ip route replace ...`: the table of one device
\* holds one route per network, so add fails when the network has a route
\* and replace puts the new route in its place.
ipRouteAddOrReplace(table, r) ==
  {x \in table : x.Network # r.Network} \cup {r}

\* The routes appended at least once.
Listed(count) == {r \in RouteEntries : count[r] > 0}

\* The table after the routes of `order` were added in turn.
RECURSIVE AddAll(_, _)
AddAll(table, order) ==
  IF order = <<>> THEN table
  ELSE AddAll(ipRouteAddOrReplace(table, Head(order)), Tail(order))

\* The table after ApplyRouteDiff when every command runs: the routes of
\* toRemove are deleted, then the routes of toAdd are added in the order
\* of the slice.
ApplyRouteDiff(table, toAdd, toRemove, order) ==
  AddAll(table \ Listed(toRemove), order)

\* The orders in which a set of routes may stand in a slice.
SliceOrders(s) ==
  {o \in [1..Cardinality(s) -> s] : \A i, j \in DOMAIN o : i # j => o[i] # o[j]}

\* GetCurrentRoutes: the table as `ip route show dev` lists it, by
\* network.
RECURSIVE GetCurrentRoutes(_)
GetCurrentRoutes(table) ==
  IF table = {} THEN <<>>
  ELSE LET r == CHOOSE r \in table :
                  \A x \in table :
                    \/ r.Network < x.Network
                    \/ r.Network = x.Network /\ r.Gateway <= x.Gateway
       IN <<r>> \o GetCurrentRoutes(table \ {r})

\* syncRoutesForNode after the diff: ApplyRouteDiff runs its commands.
ApplyRouteDiffCall ==
  /\ routes.called
  /\ applied.pc = "idle"
  /\ \E order \in SliceOrders(Listed(routes.diff.toAdd)) :
       applied' = [pc |-> "applied",
                   table |-> ApplyRouteDiff(RoutesOf(routes.current),
                                            routes.diff.toAdd,
                                            routes.diff.toRemove, order)]
  /\ UNCHANGED <<meshVars, startup, derived, router, run, driver, heap, detected, routes, unit, life, disc, reg, check>>

\* The next deploy with the same desired routes: syncRoutesForNode reads
\* the routes of the interface and computes the diff again.
Redeploy ==
  /\ applied.pc = "applied"
  /\ applied' = [pc |-> "redeployed", table |-> applied.table,
                 diff |-> CalculateRouteDiff(GetCurrentRoutes(applied.table),
                                             routes.desired)]
  /\ UNCHANGED <<meshVars, startup, derived, router, run, driver, heap, detected, routes, unit, life, disc, reg, check>>

\* No list of the interface names a network twice.
InitApply ==
  /\ InitRoutes
  /\ NetworksUnique(routes.current)
  /\ \A i, j \in 1..Len(routes.current) :
       routes.current[i] = routes.current[j] => i = j

NextApply ==
  \/ CalculateRouteDiffCall
  \/ ApplyRouteDiffCall
  \/ Redeploy

SpecApply == InitApply /\ [][NextApply]_vars

\* The routes of a set that go through a gateway.
GatewayRoutes(s) == {r \in s : r.Gateway # NoGateway}

\* The diff names no route.
EmptyDiff(diff) ==
  \A r \in RouteEntries : diff.toAdd[r] = 0 /\ diff.toRemove[r] = 0

\* C31: the route diff converges: after ApplyRouteDiff the gateway routes
\* of the interface are the desired gateway routes, and the diff of a
\* second deploy with the same desired routes is empty, so that it runs
\* no ip route command.
C31_RouteDiffConverges ==
  applied.pc = "redeployed" =>
    /\ GatewayRoutes(applied.table) = GatewayRoutes(RoutesOf(routes.desired))
    /\ EmptyDiff(applied.diff)

\* A second deploy with the same desired routes removes and adds routes.
C31_RedeployRunsCommands ==
  /\ applied.pc = "redeployed"
  /\ \E r \in RouteEntries : applied.diff.toRemove[r] > 0
  /\ \E r \in RouteEntries : applied.diff.toAdd[r] > 0

\* When no network is wanted through two gateways the diff converges.
ConvergesWhenNetworksUnique ==
  applied.pc = "redeployed" /\ NetworksUnique(routes.desired) =>
    /\ GatewayRoutes(applied.table) = GatewayRoutes(RoutesOf(routes.desired))
    /\ EmptyDiff(applied.diff)

\* ---------------------------------------------------------------------
\* The systemd unit of install-service.
\* ---------------------------------------------------------------------

\* The longest list of advertised routes.
MaxAdvertised == 2

DefaultInterface == "wg0"
SecretVariable == "${WGMESH_SECRET}"

\* fmt.Sprintf("%d", port) for the ports looked at.
PortText(port) ==
  CASE port = 0 -> "0"
    [] port = DefaultWGPort -> "51820"
    [] port = DefaultWGPort + 1 -> "51821"

\* strings.Join(list, sep).
RECURSIVE StringsJoin(_, _)
StringsJoin(list, sep) ==
  IF Len(list) = 0 THEN ""
  ELSE IF Len(list) = 1 THEN list[1]
  ELSE list[1] \o sep \o StringsJoin(Tail(list), sep)

\* The service configurations looked at.
ServiceSecrets == {"test-secret-that-is-long-enough", "another-secret-of-the-mesh"}
ServiceRoutes == {"192.168.0.0/24", "10.0.0.0/8"}

SystemdServiceConfigs ==
  [Secret : ServiceSecrets,
   InterfaceName : {"", DefaultInterface, "wg1"},
   ListenPort : {0, DefaultWGPort, DefaultWGPort + 1},
   AdvertiseRoutes : UNION {[1..n -> ServiceRoutes] : n \in 0..MaxAdvertised},
   Privacy : BOOLEAN,
   BinaryPath : {"", "/usr/local/bin/wgmesh"}]

\* What the search for the binary gives when no path is configured:
\* exec.LookPath finds it, or the path of the running program is taken,
\* or neither works.
PathFailed == ""
BinaryLookups == {"/usr/bin/wgmesh", "/root/wgmesh", PathFailed}

\* GenerateSystemdUnit with the secret itself among the arguments.
GenerateSystemdUnitSecretInArgs(cfg, binaryPath) ==
  <<binaryPath, "join", "--secret", cfg.Secret>>
    \o (IF cfg.InterfaceName # "" /\ cfg.InterfaceName # DefaultInterface
        THEN <<"--interface", cfg.InterfaceName>> ELSE <<>>)
    \o (IF cfg.ListenPort # 0 /\ cfg.ListenPort # DefaultWGPort
        THEN <<"--listen-port", PortText(cfg.ListenPort)>> ELSE <<>>)
    \o (IF Len(cfg.AdvertiseRoutes) > 0
        THEN <<"--advertise-routes", StringsJoin(cfg.AdvertiseRoutes, ",")>>
        ELSE <<>>)

\* GenerateSystemdUnit: the arguments of the ExecStart line, which
\* strings.Join puts on it with single spaces between them.
GenerateSystemdUnit(cfg, binaryPath) ==
  <<binaryPath, "join", "--secret", SecretVariable>>
    \o (IF cfg.InterfaceName # "" /\ cfg.InterfaceName # DefaultInterface
        THEN <<"--interface", cfg.InterfaceName>> ELSE <<>>)
    \o (IF cfg.ListenPort # 0 /\ cfg.ListenPort # DefaultWGPort
        THEN <<"--listen-port", PortText(cfg.ListenPort)>> ELSE <<>>)
    \o (IF Len(cfg.AdvertiseRoutes) > 0
        THEN <<"--advertise-routes", StringsJoin(cfg.AdvertiseRoutes, ",")>>
        ELSE <<>>)

\* A call of GenerateSystemdUnit: without a configured path the binary is
\* searched for, and the call fails when it is not found.
GenerateSystemdUnitCall ==
  /\ ~unit.generated
  /\ \E found \in BinaryLookups :
       LET binaryPath == IF unit.cfg.BinaryPath = "" THEN found
                         ELSE unit.cfg.BinaryPath
       IN unit' = [generated |-> TRUE, cfg |-> unit.cfg,
                   err |-> binaryPath = PathFailed,
                   ExecStart |-> IF binaryPath = PathFailed THEN <<>>
                                 ELSE GenerateSystemdUnit(unit.cfg, binaryPath)]
  /\ UNCHANGED <<meshVars, startup, derived, router, run, driver, heap, detected, routes, applied, life, disc, reg, check>>

InitSystemd ==
  /\ MeshIdle
  /\ check = NoCheck
  /\ reg = NoRegistry
  /\ disc = NoDisc
  /\ life = NoLife
  /\ startup = NoStartup
  /\ derived = NoDerivation
  /\ router = NoRouter
  /\ run = NoRun
  /\ driver = NoDriver
  /\ heap = NoHeap
  /\ detected = NoDetection
  /\ routes = NoRoutes
  /\ applied = NoApply
  /\ unit \in {[generated |-> FALSE, cfg |-> cfg] : cfg \in SystemdServiceConfigs}

NextSystemd == GenerateSystemdUnitCall

SpecSystemd == InitSystemd /\ [][NextSystemd]_vars

\* The argument that follows the flag on the ExecStart line, or "" when
\* the flag is not on it.
FlagValue(flag) ==
  IF \E i \in 1..(Len(unit.ExecStart) - 1) : unit.ExecStart[i] = flag
  THEN unit.ExecStart[1 + CHOOSE i \in 1..(Len(unit.ExecStart) - 1) :
                            unit.ExecStart[i] = flag]
  ELSE ""

\* The flag is on the ExecStart line.
HasFlag(flag) == \E i \in 1..Len(unit.ExecStart) : unit.ExecStart[i] = flag

\* The secret is passed as the variable and its value is nowhere on the
\* line.
SecretOnlyAsVariable ==
  /\ FlagValue("--secret") = SecretVariable
  /\ \A i \in 1..Len(unit.ExecStart) : unit.ExecStart[i] # unit.cfg.Secret

\* C32 as stated: the ExecStart line passes the secret only as
\* ${WGMESH_SECRET}, and it has --interface, --listen-port and
\* --advertise-routes exactly when the interface differs from wg0, the
\* port differs from 51820 and the route list is not empty.
C32_FlagsWheneverNotDefault ==
  unit.generated /\ ~unit.err =>
    /\ SecretOnlyAsVariable
    /\ HasFlag("--interface") <=> unit.cfg.InterfaceName # DefaultInterface
    /\ HasFlag("--listen-port") <=> unit.cfg.ListenPort # DefaultWGPort
    /\ HasFlag("--advertise-routes") <=> Len(unit.cfg.AdvertiseRoutes) > 0

\* C32: the ExecStart line passes the secret only as ${WGMESH_SECRET},
\* and it has --interface, --listen-port and --advertise-routes, each
\* followed by its value, exactly when the interface is set and differs
\* from wg0, the port is set and differs from 51820 and the route list is
\* not empty.
C32_ExecStartFlags ==
  unit.generated /\ ~unit.err =>
    /\ SecretOnlyAsVariable
    /\ HasFlag("--interface") <=>
         unit.cfg.InterfaceName \notin {"", DefaultInterface}
    /\ HasFlag("--interface") => FlagValue("--interface") = unit.cfg.InterfaceName
    /\ HasFlag("--listen-port") <=> unit.cfg.ListenPort \notin {0, DefaultWGPort}
    /\ HasFlag("--listen-port") =>
         FlagValue("--listen-port") = PortText(unit.cfg.ListenPort)
    /\ HasFlag("--advertise-routes") <=> Len(unit.cfg.AdvertiseRoutes) > 0
    /\ HasFlag("--advertise-routes") =>
         FlagValue("--advertise-routes") = StringsJoin(unit.cfg.AdvertiseRoutes, ",")

\* A unit was generated for a configuration with an interface and a port
\* of its own and with routes, and all three flags are on its line.
C32_Witness ==
  /\ unit.generated /\ ~unit.err
  /\ unit.cfg.InterfaceName = "wg1"
  /\ unit.cfg.ListenPort = DefaultWGPort + 1
  /\ Len(unit.cfg.AdvertiseRoutes) = MaxAdvertised
  /\ Len(unit.ExecStart) = 10

\* ---------------------------------------------------------------------
\* A node that has left, and the nodes that go on exchanging.
\* ---------------------------------------------------------------------

\* How far time runs after node 3 has left.
DepartedHorizon == 66

\* Nodes 1 and 2 hold each other and node 3, all heard at time 0; node 3
\* has left and sends nothing from then on.
InitDeparted ==
  /\ InitCommon
  /\ secret = [n \in Nodes |-> "secret-A"]
  /\ skew = [n \in Nodes |-> 0]
  /\ store = [n \in Nodes |->
                CASE n = 1 -> Put(Put(NewPeerStore, PubKey(2), DirectEntry(2)),
                                  PubKey(3), DirectEntry(3))
                  [] n = 2 -> Put(Put(NewPeerStore, PubKey(1), DirectEntry(1)),
                                  PubKey(3), DirectEntry(3))
                  [] OTHER -> NewPeerStore]

\* The nodes that stay.
Staying == {1, 2}

\* Node 1 is handed the address of node 2 by its query rounds (contactPeer
\* lets one in a minute through), and once an address where nobody
\* listens; both nodes reconcile.
NextDeparted ==
  \/ Delivered /\ TickTo(MinuteStep, DepartedHorizon)
  \/ UNCHANGED sends /\ ContactPeer(1, 2)
  \/ /\ SilentPeer \notin DOMAIN contacted[1]
     /\ now + ExchangeTimeout <= DepartedHorizon
     /\ UNCHANGED sends /\ ContactPeer(1, SilentPeer)
  \/ SendHello(1)
  \/ ExchangeReply(1)
  \/ ExchangeTimedOut(1)
  \/ ContactDone(1)
  \/ \E n \in Staying, pkt \in net : handleMessage(n, pkt)
  \/ \E n \in Staying : Reconcile(n)

\* Time passes, a started exchange runs on, a datagram sent is received,
\* and the reconcile loops tick.
FairnessDeparted ==
  /\ WF_vars(Delivered /\ TickTo(MinuteStep, DepartedHorizon))
  /\ WF_vars(SendHello(1) \/ ExchangeReply(1) \/ ExchangeTimedOut(1)
               \/ ContactDone(1))
  /\ WF_vars(\E n \in Staying, pkt \in net : handleMessage(n, pkt))
  /\ \A n \in Staying : WF_vars(Reconcile(n))

SpecDeparted == InitDeparted /\ [][NextDeparted]_vars /\ FairnessDeparted

\* Node 3 is an active peer of no node that stays, and is in no store.
InactiveEverywhere == \A n \in Staying : ~ActiveAt(n, 3)
EvictedEverywhere == \A n \in Staying : ~Has(store[n], PubKey(3))

\* C33: a node that has left ages out everywhere: it becomes inactive
\* and is then evicted at every other node, also while the others go on
\* exchanging HELLO and REPLY with known_peers lists that name it.
C33_DepartedPeerAgesOut ==
  <>(InactiveEverywhere /\ <>EvictedEverywhere)

\* Longer than the remove window after node 3 was last heard, both nodes
\* that stay hold it as an active peer, known from the lists of the other.
C33_KeptFreshByMentions ==
  /\ now > PeerRemoveTimeout
  /\ \A n \in Staying :
       /\ ActiveAt(n, 3)
       /\ Contains(store[n][PubKey(3)].DiscoveredVia, DHTMethod \o "-transitive")

\* When node 1 never exchanges with node 2, node 3 becomes inactive
\* everywhere.  (It is not evicted then: with no active peer left,
\* reconcile returns before CleanupStale.)
QuietMeshGoesInactive ==
  <>(2 \in DOMAIN contacted[1]) \/ <>[]InactiveEverywhere

\* ---------------------------------------------------------------------
\* What becomes of a REPLY that handleReply accepts.
\* ---------------------------------------------------------------------

\* The REPLY datagrams a step takes off the wire at node n and accepts.
RepliesTaken(n) ==
  {pkt \in net \ net' :
     /\ pkt.dst = n /\ pkt.port = ExchangePort
     /\ pkt.MessageType = MessageTypeReply
     /\ log'.node = n
     /\ log'.event \in {"valid REPLY", "unsolicited REPLY"}}

\* The call of node n to the sender will return the sender's PeerInfo:
\* it is in the reply channel of a call that has not chosen yet, or the
\* call has returned it.
ReachesCall(n, key) ==
  \/ /\ exch'[n].pc \in {"registered", "waiting"}
     /\ exch'[n].ch # <<>>
     /\ exch'[n].ch[1].WGPubKey = key
  \/ /\ exch'[n].pc = "returned"
     /\ exch'[n].err = ""
     /\ exch'[n].result[1].WGPubKey = key

\* The pending-reply map of a node holds the address of its call until the
\* call has returned.
PendingWhileCalling ==
  \A n \in Nodes :
    exch[n].pc \in {"registered", "waiting", "returned"} =>
      exch[n].addr \in DOMAIN pending[n]

\* C34: no valid REPLY is lost: the sender of every REPLY a node accepts
\* is in the node's store after the step or reaches the call waiting for
\* it, and while a call has not returned the pending-reply map holds its
\* entry.
C34_NoReplyLost ==
  /\ [][\A n \in Nodes : \A pkt \in RepliesTaken(n) :
          \/ Has(store'[n], pkt.ann.WGPubKey)
          \/ ReachesCall(n, pkt.ann.WGPubKey)]_vars
  /\ []PendingWhileCalling

\* A REPLY was accepted after the call waiting for it had chosen its
\* timeout and before its entry was cleared: it sits in the channel of a
\* call that has failed, and its sender is not in the store.
C34_ReplyDroppedAfterTimeout ==
  \E n \in Nodes :
    /\ log.node = n /\ log.event = "valid REPLY"
    /\ exch[n].pc = "returned"
    /\ exch[n].err = "exchange timeout"
    /\ exch[n].ch # <<>>
    /\ ~Has(store[n], exch[n].ch[1].WGPubKey)

\* A REPLY is lost in that window only: one accepted while the call has
\* not timed out, or after its entry was cleared, reaches the call or the
\* store.
ReplyLostOnlyAfterTimeout ==
  /\ [][\A n \in Nodes : \A pkt \in RepliesTaken(n) :
          ~(exch[n].pc = "returned" /\ exch[n].err # "") =>
            \/ Has(store'[n], pkt.ann.WGPubKey)
            \/ ReachesCall(n, pkt.ann.WGPubKey)]_vars
  /\ []PendingWhileCalling

\* ---------------------------------------------------------------------
\* A node's own key in its store.
\* ---------------------------------------------------------------------

\* C35: the store of a node never holds an entry under the node's own
\* key, whatever HELLO, REPLY, known_peers list, LAN announcement or
\* exchange result the node processes, its own messages sent back to it
\* included.
C35_NoOwnEntry == \A n \in Nodes : ~Has(store[n], PubKey(n))

\* A node has stored itself as a peer discovered by "dht", at the address
\* its own REPLY came back from.
C35_OwnReplyStored ==
  \E n \in Nodes :
    /\ Has(store[n], PubKey(n))
    /\ store[n][PubKey(n)].DiscoveredVia = <<DHTMethod>>
    /\ store[n][PubKey(n)].MeshIP = MeshIPOf(n)
    /\ store[n][PubKey(n)].Endpoint[1] # IPOf(n)

\* The own key enters a store through a REPLY only: by handleReply when no
\* call waits for the sender, or by contactPeer with the result of the
\* call.  HELLO, known_peers and LAN announcements never bring it in.
OwnKeyOnlyFromReply ==
  [][\A n \in Nodes :
       ~Has(store[n], PubKey(n)) /\ Has(store'[n], PubKey(n)) =>
         \/ log'.node = n /\ log'.event = "unsolicited REPLY" /\ log' # log
         \/ exch[n].pc = "returned" /\ exch'[n].pc = "idle"]_vars

\* ---------------------------------------------------------------------
\* Evicted peers and the WireGuard interface.
\* ---------------------------------------------------------------------

\* C36: at the end of every reconcile tick each key that SetPeer has
\* configured on the interface is still in the PeerStore or has been
\* removed from the interface, and a key whose RemovePeer failed is
\* removed by a later tick.
C36_EvictedPeerLeavesInterface ==
  [][driver'.ticks # driver.ticks =>
       wgPeers'[1] \subseteq DOMAIN store'[1]]_vars

\* RemovePeer had failed for an evicted peer with a key of full length;
\* a later tick has run to its end without any failure, and the key, gone
\* from the store, is still configured on the interface.
C36_EvictedPeerLingers ==
  /\ ~driver.crashed
  /\ driver.ticks = MaxReconciles
  /\ driver.last.ran = "full"
  /\ driver.last.failed = {}
  /\ \E k \in wgPeers[1] :
       /\ KeyBytes(k) >= LogPrefixBytes
       /\ ~Has(store[1], k)
       /\ k \notin driver.last.remove

\* No later tick takes the key off the interface: reconcile calls
\* RemovePeer only for the keys CleanupStale has just deleted, and a key
\* that is no longer in the store is never among them.
LingeringPeerNeverRetried ==
  [][\A k \in wgPeers[1] : ~Has(store[1], k) => k \in wgPeers'[1]]_vars

\* What holds: as long as no driver call has failed, the interface holds
\* no key that the store has lost.
InterfaceFollowsStoreWithoutFailures ==
  [][(/\ wgPeers[1] \subseteq DOMAIN store[1]
      /\ driver'.ticks # driver.ticks
      /\ driver'.last.failed = {})
       => wgPeers'[1] \subseteq DOMAIN store'[1]]_vars

\* ---------------------------------------------------------------------
\* Start and Stop of PeerExchange and LANDiscovery.
\* ---------------------------------------------------------------------

\* Calls of Start and Stop that are followed, per service.
MaxLifecycleCalls == 4

\* A panic ends the process, both services with it.
Alive == \A s \in Services : ~life[s].panicked

\* Start: an error when running or when the bind fails; else the socket
\* is bound, running is set and the loops are started with `go`:
\* listenLoop, and for LANDiscovery announceLoop as well.
Started(l, s, bindFails) ==
  IF l.running
  THEN [l EXCEPT !.calls = @ + 1,
                 !.last = [op |-> "Start", err |-> "already running"]]
  ELSE IF bindFails
  THEN [l EXCEPT !.calls = @ + 1,
                 !.last = [op |-> "Start", err |-> "bind"]]
  ELSE [l EXCEPT !.calls = @ + 1,
                 !.conn = "bound",
                 !.running = TRUE,
                 !.spawned = @ + 1,
                 !.announcing = IF s = "lan" THEN @ + 1 ELSE @,
                 !.last = [op |-> "Start", err |-> "none"]]

Start(s, bindFails) ==
  /\ Alive
  /\ life[s].calls < MaxLifecycleCalls
  /\ life' = [life EXCEPT ![s] = Started(@, s, bindFails)]
  /\ UNCHANGED <<meshVars, startup, derived, router, run, driver, heap,
                 detected, routes, applied, unit, disc, reg, check>>

\* Stop: nothing when not running; else running is cleared, the stop
\* channel is closed, which panics when it is closed already, and the
\* socket is closed.
Stopped(l) ==
  IF ~l.running
  THEN [l EXCEPT !.calls = @ + 1,
                 !.last = [op |-> "Stop", err |-> "none"]]
  ELSE IF l.stopCh = "closed"
  THEN [l EXCEPT !.calls = @ + 1,
                 !.running = FALSE,
                 !.panicked = TRUE,
                 !.last = [op |-> "Stop", err |-> "panic"]]
  ELSE [l EXCEPT !.calls = @ + 1,
                 !.running = FALSE,
                 !.stopCh = "closed",
                 !.conn = "closed",
                 !.last = [op |-> "Stop", err |-> "none"]]

Stop(s) ==
  /\ Alive
  /\ life[s].calls < MaxLifecycleCalls
  /\ life' = [life EXCEPT ![s] = Stopped(@)]
  /\ UNCHANGED <<meshVars, startup, derived, router, run, driver, heap,
                 detected, routes, applied, unit, disc, reg, check>>

\* listenLoop comes to the top of its loop for the first time: it
\* returns when the stop channel is closed and goes on to read otherwise.
listenLoopEnter(s) ==
  /\ Alive
  /\ life[s].spawned > 0
  /\ life' = [life EXCEPT ![s] =
       IF life[s].stopCh = "closed"
       THEN [@ EXCEPT !.spawned = @ - 1]
       ELSE [@ EXCEPT !.spawned = @ - 1, !.reading = @ + 1]]
  /\ UNCHANGED <<meshVars, startup, derived, router, run, driver, heap,
                 detected, routes, applied, unit, disc, reg, check>>

\* listenLoop comes back to the top after a read, which lasts a second
\* at most, and finds the stop channel closed.
listenLoopReturn(s) ==
  /\ Alive
  /\ life[s].reading > 0
  /\ life[s].stopCh = "closed"
  /\ life' = [life EXCEPT ![s].reading = @ - 1]
  /\ UNCHANGED <<meshVars, startup, derived, router, run, driver, heap,
                 detected, routes, applied, unit, disc, reg, check>>

\* announceLoop of LANDiscovery takes the stop channel's case of its
\* select.
announceLoopReturn(s) ==
  /\ Alive
  /\ life[s].announcing > 0
  /\ life[s].stopCh = "closed"
  /\ life' = [life EXCEPT ![s].announcing = @ - 1]
  /\ UNCHANGED <<meshVars, startup, derived, router, run, driver, heap,
                 detected, routes, applied, unit, disc, reg, check>>

InitLife ==
  /\ MeshIdle
  /\ check = NoCheck
  /\ reg = NoRegistry
  /\ disc = NoDisc
  /\ startup = NoStartup
  /\ derived = NoDerivation
  /\ router = NoRouter
  /\ run = NoRun
  /\ driver = NoDriver
  /\ heap = NoHeap
  /\ detected = NoDetection
  /\ routes = NoRoutes
  /\ applied = NoApply
  /\ unit = NoUnit
  /\ life = NoLife

NextLife ==
  \E s \in Services :
    \/ \E bindFails \in BOOLEAN : Start(s, bindFails)
    \/ Stop(s)
    \/ listenLoopEnter(s)
    \/ listenLoopReturn(s)
    \/ announceLoopReturn(s)

SpecLife == InitLife /\ [][NextLife]_vars

\* The call made in a step, if any.
Calls(s, op) ==
  /\ life'[s].calls # life[s].calls
  /\ life'[s].last.op = op

\* What a call may change besides the count of calls and its result.
Lifecycle(l) ==
  <<l.running, l.stopCh, l.conn, l.spawned, l.reading, l.announcing,
    l.panicked>>

\* The listener of a running service is in its loop once it has been
\* scheduled.
ListenerRuns(s) ==
  (life[s].running /\ life[s].spawned = 0) => life[s].reading > 0

\* C37: PeerExchange and LANDiscovery tolerate every sequence of Start
\* and Stop: Start on a running instance returns an error and changes
\* nothing, Stop on a stopped one changes nothing, no sequence closes the
\* stop channel twice, and after a Start that follows a Stop the listener
\* loop runs again.
C37_StartStopTolerated ==
  /\ [][\A s \in Services :
          (Calls(s, "Start") /\ life[s].running) =>
            /\ life'[s].last.err = "already running"
            /\ Lifecycle(life'[s]) = Lifecycle(life[s])]_vars
  /\ [][\A s \in Services :
          (Calls(s, "Stop") /\ ~life[s].running) =>
            Lifecycle(life'[s]) = Lifecycle(life[s])]_vars
  /\ [](\A s \in Services : ~life[s].panicked)
  /\ [](\A s \in Services : ListenerRuns(s))

\* Start, Stop, Start, Stop: the second Stop has closed the closed stop
\* channel and the process has panicked; the listener started by the
\* second Start had returned at once.
C37_SecondStopPanics ==
  \E s \in Services :
    /\ life[s].panicked
    /\ life[s].calls = 4
    /\ life[s].last = [op |-> "Stop", err |-> "panic"]
    /\ life[s].spawned = 0
    /\ life[s].reading = 0

\* What holds: the two no-op cases at all times, and the whole of it as
\* long as the service has not been stopped once.
StartStopToleratedOnce ==
  /\ [][\A s \in Services :
          (Calls(s, "Start") /\ life[s].running) =>
            /\ life'[s].last.err = "already running"
            /\ Lifecycle(life'[s]) = Lifecycle(life[s])]_vars
  /\ [][\A s \in Services :
          (Calls(s, "Stop") /\ ~life[s].running) =>
            Lifecycle(life'[s]) = Lifecycle(life[s])]_vars
  /\ [](\A s \in Services :
          life[s].stopCh = "open" => ~life[s].panicked /\ ListenerRuns(s))

\* ---------------------------------------------------------------------
\* DHTDiscovery.Start when a step of it fails.
\* ---------------------------------------------------------------------

\* Calls of Start and Stop of the discovery that are followed.
MaxDiscoveryCalls == 4

\* How initDHTServer may fail: neither the port next to the exchange
\* port nor a port of the system's choice can be bound, no bootstrap node
\* resolves, or dht.NewServer returns an error.
DHTFailures == {"bind", "resolve", "server"}

\* initDHTServer: the DHT socket is bound, and closed again when a later
\* step fails; the server is kept when all went well.
initDHTServer(d, failure) ==
  IF failure = "bind" THEN d
  ELSE IF failure \in {"resolve", "server"}
  THEN [d EXCEPT !.dhtConn = "closed"]
  ELSE [d EXCEPT !.dhtConn = "bound", !.server = "open"]

\* DHTDiscovery.Start: an error when running; else running is set, the
\* peer exchange is started, the DHT server is set up, with the peer
\* exchange stopped again when that fails, which may panic, and
\* announceLoop and queryLoop are started.
DiscoveryStart(bindFails, failure) ==
  /\ Alive
  /\ disc.calls < MaxDiscoveryCalls
  /\ IF disc.running
     THEN /\ disc' = [disc EXCEPT
                        !.calls = @ + 1,
                        !.last = [op |-> "Start",
                                  err |-> "already running"]]
          /\ UNCHANGED life
     ELSE LET exchange == Started(life["exchange"], "exchange", bindFails)
          IN IF exchange.last.err # "none"
             THEN /\ disc' = [disc EXCEPT
                                !.running = TRUE,
                                !.calls = @ + 1,
                                !.last = [op |-> "Start",
                                          err |-> "peer exchange"]]
                  /\ life' = [life EXCEPT !["exchange"] = exchange]
             ELSE IF failure \in DHTFailures
             THEN /\ disc' = [initDHTServer(disc, failure) EXCEPT
                                !.running = TRUE,
                                !.calls = @ + 1,
                                !.last = [op |-> "Start",
                                          err |-> IF Stopped(exchange).panicked
                                                  THEN "panic"
                                                  ELSE "DHT server"]]
                  /\ life' = [life EXCEPT !["exchange"] = Stopped(exchange)]
             ELSE /\ disc' = [initDHTServer(disc, failure) EXCEPT
                                !.running = TRUE,
                                !.loops = @ + 2,
                                !.calls = @ + 1,
                                !.last = [op |-> "Start", err |-> "none"]]
                  /\ life' = [life EXCEPT !["exchange"] = exchange]
  /\ UNCHANGED <<meshVars, startup, derived, router, run, driver, heap,
                 detected, routes, applied, unit, reg, check>>

\* DHTDiscovery.Stop: nothing when not running; else running is cleared,
\* the context is cancelled, the server, if there is one, is closed and
\* its socket with it, and the peer exchange is stopped.
DiscoveryStop ==
  /\ Alive
  /\ disc.calls < MaxDiscoveryCalls
  /\ IF ~disc.running
     THEN /\ disc' = [disc EXCEPT !.calls = @ + 1,
                                  !.last = [op |-> "Stop", err |-> "none"]]
          /\ UNCHANGED life
     ELSE /\ disc' = [disc EXCEPT
                        !.running = FALSE,
                        !.ctxDone = TRUE,
                        !.server = IF @ = "nil" THEN @ ELSE "closed",
                        !.dhtConn = IF disc.server = "nil" THEN @
                                    ELSE "closed",
                        !.calls = @ + 1,
                        !.last = [op |-> "Stop",
                                  err |-> Stopped(life["exchange"]).last.err]]
          /\ life' = [life EXCEPT !["exchange"] = Stopped(@)]
  /\ UNCHANGED <<meshVars, startup, derived, router, run, driver, heap,
                 detected, routes, applied, unit, reg, check>>

\* announceLoop or queryLoop takes the ctx.Done case of its select.
DiscoveryLoopReturn ==
  /\ Alive
  /\ disc.loops > 0
  /\ disc.ctxDone
  /\ disc' = [disc EXCEPT !.loops = @ - 1]
  /\ UNCHANGED <<meshVars, startup, derived, router, run, driver, heap,
                 detected, routes, applied, unit, life, reg, check>>

InitDiscovery == InitLife

\* The discovery is started and stopped; its peer exchange is reached
\* through it alone.
NextDiscovery ==
  \/ \E bindFails \in BOOLEAN, failure \in DHTFailures \cup {"none"} :
       DiscoveryStart(bindFails, failure)
  \/ DiscoveryStop
  \/ DiscoveryLoopReturn
  \/ (listenLoopEnter("exchange") /\ UNCHANGED disc)
  \/ (listenLoopReturn("exchange") /\ UNCHANGED disc)

SpecDiscovery == InitDiscovery /\ [][NextDiscovery]_vars

\* The last call was a Start that failed in the peer exchange or in the
\* DHT server.
StartFailed ==
  /\ disc.last.op = "Start"
  /\ disc.last.err \in {"peer exchange", "DHT server"}

\* No socket of the discovery is bound and none of its loops is in its
\* loop.
NothingLeftBehind ==
  /\ life["exchange"].conn # "bound"
  /\ disc.dhtConn # "bound"
  /\ disc.loops = 0
  /\ life["exchange"].reading = 0

\* C38: when DHTDiscovery.Start has returned an error of the peer
\* exchange or of the DHT server, the discovery is not running, no socket
\* of it is bound and no loop of it runs, and the next Start is not
\* rejected as already running.
C38_FailedStartLeavesStopped ==
  /\ [](StartFailed => ~disc.running /\ NothingLeftBehind)
  /\ [][(StartFailed /\ disc'.calls # disc.calls
                     /\ disc'.last.op = "Start")
          => disc'.last.err # "already running"]_vars

\* Start has failed in the DHT server, and the Start called next was
\* rejected as already running, with no socket bound and no loop.
C38_StartRejectedAfterFailure ==
  /\ disc.last = [op |-> "Start", err |-> "already running"]
  /\ disc.calls = 2
  /\ disc.running
  /\ disc.server = "nil"
  /\ disc.dhtConn = "closed"
  /\ life["exchange"].stopCh = "closed"
  /\ NothingLeftBehind

\* What holds: a failed Start leaves no socket bound, and no loop in its
\* loop once the loops of an earlier run have seen the cancelled context.
FailedStartLeavesNothingBehind ==
  [](StartFailed =>
       /\ life["exchange"].conn # "bound"
       /\ disc.dhtConn # "bound"
       /\ life["exchange"].reading > 0 => life["exchange"].stopCh = "closed"
       /\ disc.loops > 0 => disc.ctxDone)

\* ---------------------------------------------------------------------
\* The rendezvous registry: one issue per mesh, found or created.
\* ---------------------------------------------------------------------

\* Calls of FindOrCreate that are followed, per node.
MaxFindOrCreate == 2

\* buildIssueBody for the list FindOrCreate passes, which holds the
\* node's own PeerInfo and nothing else: the first peer becomes the
\* announcement, the rest, none here, its known peers.
buildIssueBody(n) ==
  SealEnvelope(MessageTypeAnnounce,
               CreateAnnouncement(PubKey(n), MeshIPOf(n), LocalWGEndpoint,
                                  AdvertiseRoutes(n), {}, Clock(n)),
               secret[n], FreshNonce({}))

\* FindOrCreate, its first half: searchRegistry.  A failed request leaves
\* the client as it was and yields no peers; so does an empty result;
\* else the first item of the result, whose order is the server's, gives
\* the issue number and the peers.
searchRegistry(n, requestFails, first) ==
  /\ reg.client[n].pc = "idle"
  /\ reg.client[n].calls < MaxFindOrCreate
  /\ first \in DOMAIN reg.issues \cup {0}
  /\ first = 0 <=> (requestFails \/ reg.issues = <<>>)
  /\ reg' = [reg EXCEPT !.client[n] =
       IF first = 0
       THEN [@ EXCEPT !.pc = "searched", !.peers = {},
                      !.seen = Len(reg.issues),
                      !.searchErr = @ \/ requestFails]
       ELSE [@ EXCEPT !.pc = "searched", !.issueNum = first,
                      !.peers = decryptPeerList(reg.issues[first],
                                                secret[n], Clock(n)),
                      !.seen = Len(reg.issues)]]
  /\ UNCHANGED <<meshVars, startup, derived, router, run, driver, heap,
                 detected, routes, applied, unit, life, disc, check>>

\* FindOrCreate, its second half: with no issue number createIssue, when
\* the node has a token; with one, updatePeerList, when it has a token.
\* A failed request is logged.  The peers of the search are returned.
FindOrCreate(n, requestFails) ==
  /\ reg.client[n].pc = "searched"
  /\ LET r == reg.client[n]
         done == [r EXCEPT !.pc = "idle", !.calls = @ + 1]
     IN IF ~reg.token[n] \/ requestFails
        THEN reg' = [reg EXCEPT !.client[n] = done]
        ELSE IF r.issueNum = 0
        THEN reg' = [reg EXCEPT
                       !.issues = Append(@, buildIssueBody(n)),
                       !.client[n] = [done EXCEPT !.issueNum =
                                        Len(reg.issues) + 1]]
        ELSE reg' = [reg EXCEPT
                       !.issues[r.issueNum] = buildIssueBody(n),
                       !.client[n] = done]
  /\ UNCHANGED <<meshVars, startup, derived, router, run, driver, heap,
                 detected, routes, applied, unit, life, disc, check>>

\* The nodes of one mesh, every one with or without GITHUB_TOKEN.
InitRegistry ==
  /\ MeshIdle
  /\ check = NoCheck
  /\ startup = NoStartup
  /\ derived = NoDerivation
  /\ router = NoRouter
  /\ run = NoRun
  /\ driver = NoDriver
  /\ heap = NoHeap
  /\ detected = NoDetection
  /\ routes = NoRoutes
  /\ applied = NoApply
  /\ unit = NoUnit
  /\ life = NoLife
  /\ disc = NoDisc
  /\ \E token \in [Nodes -> BOOLEAN] :
       reg = [NoRegistry EXCEPT !.token = token]

NextRegistry ==
  \E n \in Nodes, requestFails \in BOOLEAN :
    \/ \E first \in 0..Len(reg.issues) : searchRegistry(n, requestFails, first)
    \/ FindOrCreate(n, requestFails)

SpecRegistry == InitRegistry /\ [][NextRegistry]_vars

\* The peers a node that searches now would get from issue i.
Discoverable(issues, i) == decryptPeerList(issues[i], "secret-A", now)

\* C39: for one rendezvous ID at most one registry entry is ever created,
\* also when two nodes with a token run FindOrCreate at the same time and
\* both find none; and a FindOrCreate on an existing entry leaves the
\* peers other nodes have published there discoverable.
C39_OneEntryAndPeersKept ==
  /\ [](Len(reg.issues) <= 1)
  /\ [][\A i \in DOMAIN reg.issues :
          Discoverable(reg.issues, i) \subseteq Discoverable(reg'.issues, i)]_vars

\* Two nodes searched, each request succeeding, while the registry was
\* empty; each has created an entry of its own.
C39_TwoEntriesCreated ==
  /\ Len(reg.issues) = 2
  /\ \E a, b \in Nodes :
       /\ a # b
       /\ reg.client[a].issueNum = 1 /\ reg.client[b].issueNum = 2
       /\ reg.client[a].seen = 0 /\ reg.client[b].seen = 0
       /\ ~reg.client[a].searchErr /\ ~reg.client[b].searchErr
       /\ reg.client[a].calls = 1 /\ reg.client[b].calls = 1

\* What holds: a node creates one entry at most, so there are never more
\* entries than nodes with a token.
EntriesAtMostTokenHolders ==
  Len(reg.issues) <= Cardinality({n \in Nodes : reg.token[n]})

\* What holds: an entry loses a peer only when another node's
\* FindOrCreate replaces its body, and then it holds that node alone.
OverwrittenOnlyByUpdate ==
  [][\A i \in DOMAIN reg.issues :
       reg'.issues[i] # reg.issues[i] =>
         \E n \in Nodes :
           /\ reg.client[n].pc = "searched" /\ reg.client[n].issueNum = i
           /\ reg.token[n]
           /\ Discoverable(reg'.issues, i) = {PubKey(n)}]_vars

\* ---------------------------------------------------------------------
\* DeriveMeshIPWithCollisionCheck.
\* ---------------------------------------------------------------------

\* The last nonce the loop derives with.
MaxCollisionNonce == 10

\* The node whose address is derived, and another one.
CheckedKey == PubKey(1)
OtherKey == PubKey(2)

\* The first two bytes of the hash for the plain input (NoNonce) and for
\* the inputs with nonce 1 to 10: one of the two values the clamp moves.
CheckHashes == [NoNonce..MaxCollisionNonce -> {0, SuffixMax}]

\* The maps from mesh address to the key that holds it.
CheckAddresses == {MeshAddress(ClampSuffix(0)), MeshAddress(ClampSuffix(SuffixMax))}

ExistingIPs ==
  UNION {[taken -> {CheckedKey, OtherKey}] : taken \in SUBSET CheckAddresses}

\* The address derived from the plain input (nonce = NoNonce) or with a
\* nonce, under the table `hash`.
CandidateIP(hash, nonce) == MeshAddress(ClampSuffix(hash[nonce]))

\* `if owner, exists := existingIPs[ip]; !exists || owner == wgPubKey`
NoCollision(existingIPs, ip, wgPubKey) ==
  ip \notin DOMAIN existingIPs \/ existingIPs[ip] = wgPubKey

\* The loop from the iteration with `nonce` on, `ip` being the address
\* derived last: return it when it does not collide, else derive with
\* the nonce and go on; past the last nonce return what was derived last.
RECURSIVE CollisionCheckLoop(_, _, _, _, _)
CollisionCheckLoop(hash, wgPubKey, existingIPs, ip, nonce) ==
  IF nonce > MaxCollisionNonce
  THEN [ip |-> ip, rederivations |-> nonce - 1]
  ELSE IF NoCollision(existingIPs, ip, wgPubKey)
  THEN [ip |-> ip, rederivations |-> nonce - 1]
  ELSE CollisionCheckLoop(hash, wgPubKey, existingIPs,
                          CandidateIP(hash, nonce), nonce + 1)

DeriveMeshIPWithCollisionCheck(hash, wgPubKey, existingIPs) ==
  CollisionCheckLoop(hash, wgPubKey, existingIPs,
                     CandidateIP(hash, NoNonce), 1)

\* The function is called with the inputs drawn.
DeriveMeshIPWithCollisionCheckCall ==
  /\ check.pc = "start"
  /\ LET result == DeriveMeshIPWithCollisionCheck(check.hash, CheckedKey,
                                                  check.existingIPs)
     IN check' = [check EXCEPT !.pc = "returned", !.ip = result.ip,
                               !.rederivations = result.rederivations]
  /\ UNCHANGED <<meshVars, startup, derived, router, run, driver, heap,
                 detected, routes, applied, unit, life, disc, reg>>

InitCheck ==
  /\ MeshIdle
  /\ startup = NoStartup
  /\ derived = NoDerivation
  /\ router = NoRouter
  /\ run = NoRun
  /\ driver = NoDriver
  /\ heap = NoHeap
  /\ detected = NoDetection
  /\ routes = NoRoutes
  /\ applied = NoApply
  /\ unit = NoUnit
  /\ life = NoLife
  /\ disc = NoDisc
  /\ reg = NoRegistry
  /\ \E hash \in CheckHashes, existingIPs \in ExistingIPs :
       check = [NoCheck EXCEPT !.pc = "start", !.hash = hash,
                               !.existingIPs = existingIPs]

NextCheck == DeriveMeshIPWithCollisionCheckCall

SpecCheck == InitCheck /\ [][NextCheck]_vars

\* The nonces whose address does not collide, NoNonce standing for the
\* plain derivation.
FreeNonces ==
  {n \in NoNonce..MaxCollisionNonce :
     NoCollision(check.existingIPs, CandidateIP(check.hash, n), CheckedKey)}

\* C40: the address DeriveMeshIPWithCollisionCheck returns is absent
\* from existingIPs or held there by the same key, whatever existingIPs
\* holds; it is the base address or else the address of the lowest nonce
\* that does not collide, and at most 10 addresses are derived anew.
C40_ReturnedAddressIsFree ==
  check.pc = "returned" =>
    /\ NoCollision(check.existingIPs, check.ip, CheckedKey)
    /\ check.rederivations <= MaxCollisionNonce
    /\ \E n \in FreeNonces :
         /\ check.ip = CandidateIP(check.hash, n)
         /\ check.rederivations = n
         /\ \A m \in FreeNonces : n <= m

\* The base address and the addresses of all ten nonces are held by the
\* other key; the address of nonce 10 has come back, held by that key.
C40_AllCandidatesTaken ==
  /\ check.pc = "returned"
  /\ FreeNonces = {}
  /\ check.rederivations = MaxCollisionNonce
  /\ check.ip = CandidateIP(check.hash, MaxCollisionNonce)
  /\ check.ip \in DOMAIN check.existingIPs
  /\ check.existingIPs[check.ip] = OtherKey

\* What holds: when some candidate does not collide, the one of the
\* lowest nonce comes back after that many re-derivations, and never
\* more than 10 addresses are derived anew.
FirstFreeCandidateWithinBound ==
  check.pc = "returned" =>
    /\ check.rederivations <= MaxCollisionNonce
    /\ FreeNonces # {} =>
         \E n \in FreeNonces :
           /\ check.ip = CandidateIP(check.hash, n)
           /\ check.rederivations = n
           /\ \A m \in FreeNonces : n <= m

\* What holds: the address returned collides only when the base address
\* and the addresses of all ten nonces collide.
CollidesOnlyWhenAllAreTaken ==
  (check.pc = "returned"
     /\ ~NoCollision(check.existingIPs, check.ip, CheckedKey))
    => FreeNonces = {}

====
